---------------------------- MODULE Spec2Model ----------------------------
(***************************************************************************)
(* A model of the equivocal scene audio engine (equivocal/engine.py):      *)
(* training of atomic sound prototypes from tier directories, prompt       *)
(* matching, blending, internal listening and saving.                      *)
(*                                                                         *)
(* Strings are handled as sequences of one-character strings (Chars), so   *)
(* that lower(), split() and the substring test are computed.  Floating    *)
(* point numbers are modelled as exact rationals <<n, d>>; rounding error  *)
(* is outside the model.                                                   *)
(***************************************************************************)
EXTENDS Integers, Sequences, FiniteSets, TLC

VARIABLES
    fs,                  \* the directory trees train_atomic_sounds reads
    atomic_sounds,       \* SceneAudioEngine.atomic_sounds
    soundscapes,         \* SceneAudioEngine.soundscapes
    semantic_vocabulary, \* SceneAudioEngine.semantic_vocabulary
    model_file,          \* what save_model last wrote
    tier_paths,          \* the path arguments of the last train_atomic_sounds call
    total_learned,       \* the count train_atomic_sounds last printed
    prompt,              \* the caller's prompt of the last generate call
    scene,               \* the caller's scene: last generate_scene_from_text result
    interpretation,      \* the caller's last listen_internal result
    sound_names,         \* arguments of a direct _blend_sounds call
    weights,
    blended,             \* result of a direct _blend_sounds call
    error,               \* exception that left the last call, or "none"
    last_call,           \* the method called last
    input_file,          \* the input file of a CleanAudioExtractor call, as loaded
    request,             \* the other arguments of that call
    segment,             \* what extract_clean_sample returned
    output_file,         \* what extract_clean_sample wrote
    moments,             \* what find_interesting_moments returned
    session,             \* run_interactive_session: where it is, what it read
    gui,                 \* EquivocalGUI: its attributes, widgets, thread, callbacks
    precision,           \* bits of the floating point mantissa; 0: exact arithmetic
    averaged             \* what _average_features returned

\* what the calls on the engine alone leave as it is
others == <<input_file, request, segment, output_file, moments, session, gui,
            precision, averaged>>

vars == <<fs, atomic_sounds, soundscapes, semantic_vocabulary,
          model_file, tier_paths, total_learned, prompt, scene, interpretation,
          sound_names, weights, blended, error, last_call, others>>

None == [t |-> "NoneType"]

\* no extractor call, no interactive session and no window yet
InitOthers ==
    /\ input_file = None
    /\ request = None
    /\ segment = None
    /\ output_file = None
    /\ moments = None
    /\ session = None
    /\ gui = None
    /\ precision = 0
    /\ averaged = None
EmptyDict == <<>>

-----------------------------------------------------------------------------
(* Strings *)

semantic_map ==
    ("cafe" :> <<"cafe_ambience", "cafe_chatter", "espresso_machine">>)
    @@ ("coffee" :> <<"cafe_ambience", "espresso_machine">>)
    @@ ("coffeeshop" :> <<"cafe_ambience", "cafe_chatter", "espresso_machine">>)
    @@ ("restaurant" :> <<"cafe_ambience", "cafe_chatter">>)
    @@ ("indoor" :> <<"cafe_ambience">>)
    @@ ("inside" :> <<"cafe_ambience">>)
    @@ ("forest" :> <<"forest_ambience", "bird_chirp">>)
    @@ ("woods" :> <<"forest_ambience", "bird_chirp">>)
    @@ ("trees" :> <<"forest_ambience">>)
    @@ ("nature" :> <<"forest_ambience", "bird_chirp">>)
    @@ ("outdoor" :> <<"forest_ambience">>)
    @@ ("outside" :> <<"forest_ambience">>)
    @@ ("wind" :> <<"forest_ambience">>)
    @@ ("breeze" :> <<"forest_ambience">>)
    @@ ("leaves" :> <<"forest_ambience">>)
    @@ ("underwater" :> <<"underwater_ambience", "whale_song", "dolphin_clicks">>)
    @@ ("ocean" :> <<"underwater_ambience", "whale_song", "dolphin_clicks">>)
    @@ ("sea" :> <<"underwater_ambience", "whale_song">>)
    @@ ("aquatic" :> <<"underwater_ambience", "whale_song", "dolphin_clicks">>)
    @@ ("deep" :> <<"underwater_ambience", "whale_song">>)
    @@ ("water" :> <<"underwater_ambience">>)
    @@ ("marine" :> <<"underwater_ambience", "whale_song", "dolphin_clicks">>)
    @@ ("whale" :> <<"whale_song">>)
    @@ ("whales" :> <<"whale_song">>)
    @@ ("humpback" :> <<"whale_song">>)
    @@ ("dolphin" :> <<"dolphin_clicks">>)
    @@ ("dolphins" :> <<"dolphin_clicks">>)
    @@ ("seal" :> <<"sealion_shrimp">>)
    @@ ("sealion" :> <<"sealion_shrimp">>)
    @@ ("sea-lion" :> <<"sealion_shrimp">>)
    @@ ("bird" :> <<"bird_chirp">>)
    @@ ("birds" :> <<"bird_chirp">>)
    @@ ("chirp" :> <<"bird_chirp">>)
    @@ ("chirping" :> <<"bird_chirp">>)
    @@ ("singing" :> <<"bird_chirp", "whale_song">>)
    @@ ("song" :> <<"bird_chirp", "whale_song">>)
    @@ ("thunder" :> <<"thunder">>)
    @@ ("thunderstorm" :> <<"thunder", "forest_ambience">>)
    @@ ("storm" :> <<"thunder", "forest_ambience">>)
    @@ ("lightning" :> <<"thunder">>)
    @@ ("rain" :> <<"forest_ambience">>)
    @@ ("raining" :> <<"forest_ambience">>)
    @@ ("espresso" :> <<"espresso_machine">>)
    @@ ("steam" :> <<"espresso_machine">>)
    @@ ("hiss" :> <<"espresso_machine">>)
    @@ ("machine" :> <<"espresso_machine">>)
    @@ ("brewing" :> <<"espresso_machine">>)
    @@ ("chatter" :> <<"cafe_chatter">>)
    @@ ("talking" :> <<"cafe_chatter">>)
    @@ ("conversation" :> <<"cafe_chatter">>)
    @@ ("voices" :> <<"cafe_chatter">>)
    @@ ("people" :> <<"cafe_chatter">>)
    @@ ("crowd" :> <<"cafe_chatter">>)
    @@ ("clicks" :> <<"dolphin_clicks">>)
    @@ ("clicking" :> <<"dolphin_clicks">>)
    @@ ("echolocation" :> <<"dolphin_clicks">>)
    @@ ("peaceful" :> <<"underwater_ambience", "forest_ambience">>)
    @@ ("calm" :> <<"forest_ambience", "underwater_ambience">>)
    @@ ("quiet" :> <<"forest_ambience", "underwater_ambience">>)
    @@ ("serene" :> <<"forest_ambience", "underwater_ambience">>)
    @@ ("tranquil" :> <<"forest_ambience", "underwater_ambience">>)
    @@ ("busy" :> <<"cafe_ambience", "cafe_chatter">>)
    @@ ("active" :> <<"cafe_chatter", "bird_chirp">>)
    @@ ("lively" :> <<"cafe_ambience", "cafe_chatter", "bird_chirp">>)
    @@ ("dramatic" :> <<"thunder", "whale_song">>)
    @@ ("intense" :> <<"thunder", "whale_song">>)
    @@ ("powerful" :> <<"thunder", "whale_song">>)
    @@ ("gentle" :> <<"forest_ambience", "bird_chirp">>)
    @@ ("soft" :> <<"forest_ambience">>)
    @@ ("loud" :> <<"thunder", "espresso_machine">>)

Chars(s) ==
    CASE s = "cafe" -> <<"c", "a", "f", "e">>
      [] s = "coffee" -> <<"c", "o", "f", "f", "e", "e">>
      [] s = "coffeeshop" -> <<"c", "o", "f", "f", "e", "e", "s", "h", "o", "p">>
      [] s = "restaurant" -> <<"r", "e", "s", "t", "a", "u", "r", "a", "n", "t">>
      [] s = "indoor" -> <<"i", "n", "d", "o", "o", "r">>
      [] s = "inside" -> <<"i", "n", "s", "i", "d", "e">>
      [] s = "forest" -> <<"f", "o", "r", "e", "s", "t">>
      [] s = "woods" -> <<"w", "o", "o", "d", "s">>
      [] s = "trees" -> <<"t", "r", "e", "e", "s">>
      [] s = "nature" -> <<"n", "a", "t", "u", "r", "e">>
      [] s = "outdoor" -> <<"o", "u", "t", "d", "o", "o", "r">>
      [] s = "outside" -> <<"o", "u", "t", "s", "i", "d", "e">>
      [] s = "wind" -> <<"w", "i", "n", "d">>
      [] s = "breeze" -> <<"b", "r", "e", "e", "z", "e">>
      [] s = "leaves" -> <<"l", "e", "a", "v", "e", "s">>
      [] s = "underwater" -> <<"u", "n", "d", "e", "r", "w", "a", "t", "e", "r">>
      [] s = "ocean" -> <<"o", "c", "e", "a", "n">>
      [] s = "sea" -> <<"s", "e", "a">>
      [] s = "aquatic" -> <<"a", "q", "u", "a", "t", "i", "c">>
      [] s = "deep" -> <<"d", "e", "e", "p">>
      [] s = "water" -> <<"w", "a", "t", "e", "r">>
      [] s = "marine" -> <<"m", "a", "r", "i", "n", "e">>
      [] s = "whale" -> <<"w", "h", "a", "l", "e">>
      [] s = "whales" -> <<"w", "h", "a", "l", "e", "s">>
      [] s = "humpback" -> <<"h", "u", "m", "p", "b", "a", "c", "k">>
      [] s = "dolphin" -> <<"d", "o", "l", "p", "h", "i", "n">>
      [] s = "dolphins" -> <<"d", "o", "l", "p", "h", "i", "n", "s">>
      [] s = "seal" -> <<"s", "e", "a", "l">>
      [] s = "sealion" -> <<"s", "e", "a", "l", "i", "o", "n">>
      [] s = "sea-lion" -> <<"s", "e", "a", "-", "l", "i", "o", "n">>
      [] s = "bird" -> <<"b", "i", "r", "d">>
      [] s = "birds" -> <<"b", "i", "r", "d", "s">>
      [] s = "chirp" -> <<"c", "h", "i", "r", "p">>
      [] s = "chirping" -> <<"c", "h", "i", "r", "p", "i", "n", "g">>
      [] s = "singing" -> <<"s", "i", "n", "g", "i", "n", "g">>
      [] s = "song" -> <<"s", "o", "n", "g">>
      [] s = "thunder" -> <<"t", "h", "u", "n", "d", "e", "r">>
      [] s = "thunderstorm" -> <<"t", "h", "u", "n", "d", "e", "r", "s", "t", "o", "r", "m">>
      [] s = "storm" -> <<"s", "t", "o", "r", "m">>
      [] s = "lightning" -> <<"l", "i", "g", "h", "t", "n", "i", "n", "g">>
      [] s = "rain" -> <<"r", "a", "i", "n">>
      [] s = "raining" -> <<"r", "a", "i", "n", "i", "n", "g">>
      [] s = "espresso" -> <<"e", "s", "p", "r", "e", "s", "s", "o">>
      [] s = "steam" -> <<"s", "t", "e", "a", "m">>
      [] s = "hiss" -> <<"h", "i", "s", "s">>
      [] s = "machine" -> <<"m", "a", "c", "h", "i", "n", "e">>
      [] s = "brewing" -> <<"b", "r", "e", "w", "i", "n", "g">>
      [] s = "chatter" -> <<"c", "h", "a", "t", "t", "e", "r">>
      [] s = "talking" -> <<"t", "a", "l", "k", "i", "n", "g">>
      [] s = "conversation" -> <<"c", "o", "n", "v", "e", "r", "s", "a", "t", "i", "o", "n">>
      [] s = "voices" -> <<"v", "o", "i", "c", "e", "s">>
      [] s = "people" -> <<"p", "e", "o", "p", "l", "e">>
      [] s = "crowd" -> <<"c", "r", "o", "w", "d">>
      [] s = "clicks" -> <<"c", "l", "i", "c", "k", "s">>
      [] s = "clicking" -> <<"c", "l", "i", "c", "k", "i", "n", "g">>
      [] s = "echolocation" -> <<"e", "c", "h", "o", "l", "o", "c", "a", "t", "i", "o", "n">>
      [] s = "peaceful" -> <<"p", "e", "a", "c", "e", "f", "u", "l">>
      [] s = "calm" -> <<"c", "a", "l", "m">>
      [] s = "quiet" -> <<"q", "u", "i", "e", "t">>
      [] s = "serene" -> <<"s", "e", "r", "e", "n", "e">>
      [] s = "tranquil" -> <<"t", "r", "a", "n", "q", "u", "i", "l">>
      [] s = "busy" -> <<"b", "u", "s", "y">>
      [] s = "active" -> <<"a", "c", "t", "i", "v", "e">>
      [] s = "lively" -> <<"l", "i", "v", "e", "l", "y">>
      [] s = "dramatic" -> <<"d", "r", "a", "m", "a", "t", "i", "c">>
      [] s = "intense" -> <<"i", "n", "t", "e", "n", "s", "e">>
      [] s = "powerful" -> <<"p", "o", "w", "e", "r", "f", "u", "l">>
      [] s = "gentle" -> <<"g", "e", "n", "t", "l", "e">>
      [] s = "soft" -> <<"s", "o", "f", "t">>
      [] s = "loud" -> <<"l", "o", "u", "d">>
      [] s = "bird_chirp" -> <<"b", "i", "r", "d", "_", "c", "h", "i", "r", "p">>
      [] s = "cafe_ambience" -> <<"c", "a", "f", "e", "_", "a", "m", "b", "i", "e", "n", "c", "e">>
      [] s = "cafe_chatter" -> <<"c", "a", "f", "e", "_", "c", "h", "a", "t", "t", "e", "r">>
      [] s = "dolphin_clicks" -> <<"d", "o", "l", "p", "h", "i", "n", "_", "c", "l", "i", "c", "k", "s">>
      [] s = "espresso_machine" -> <<"e", "s", "p", "r", "e", "s", "s", "o", "_", "m", "a", "c", "h", "i", "n", "e">>
      [] s = "forest_ambience" -> <<"f", "o", "r", "e", "s", "t", "_", "a", "m", "b", "i", "e", "n", "c", "e">>
      [] s = "sealion_shrimp" -> <<"s", "e", "a", "l", "i", "o", "n", "_", "s", "h", "r", "i", "m", "p">>
      [] s = "underwater_ambience" -> <<"u", "n", "d", "e", "r", "w", "a", "t", "e", "r", "_", "a", "m", "b", "i", "e", "n", "c", "e">>
      [] s = "whale_song" -> <<"w", "h", "a", "l", "e", "_", "s", "o", "n", "g">>
      [] s = "" -> <<>>
      [] s = "  " -> <<" ", " ">>
      [] s = "peaceful underwater scene with whale" -> <<"p", "e", "a", "c", "e", "f", "u", "l", " ", "u", "n", "d", "e", "r", "w", "a", "t", "e", "r", " ", "s", "c", "e", "n", "e", " ", "w", "i", "t", "h", " ", "w", "h", "a", "l", "e">>
      [] s = "cafe with espresso machine" -> <<"c", "a", "f", "e", " ", "w", "i", "t", "h", " ", "e", "s", "p", "r", "e", "s", "s", "o", " ", "m", "a", "c", "h", "i", "n", "e">>
      [] s = "forest with bird and thunder" -> <<"f", "o", "r", "e", "s", "t", " ", "w", "i", "t", "h", " ", "b", "i", "r", "d", " ", "a", "n", "d", " ", "t", "h", "u", "n", "d", "e", "r">>
      [] s = "dolphin underwater" -> <<"d", "o", "l", "p", "h", "i", "n", " ", "u", "n", "d", "e", "r", "w", "a", "t", "e", "r">>
      [] s = "calm wind" -> <<"c", "a", "l", "m", " ", "w", "i", "n", "d">>
      [] s = "dramatic storm" -> <<"d", "r", "a", "m", "a", "t", "i", "c", " ", "s", "t", "o", "r", "m">>
      [] s = "quiet ocean" -> <<"q", "u", "i", "e", "t", " ", "o", "c", "e", "a", "n">>
      [] s = "busy coffee shop" -> <<"b", "u", "s", "y", " ", "c", "o", "f", "f", "e", "e", " ", "s", "h", "o", "p">>
      [] s = "Whale" -> <<"W", "h", "a", "l", "e">>
      [] s = "shrimp" -> <<"s", "h", "r", "i", "m", "p">>
      [] s = "piano" -> <<"p", "i", "a", "n", "o">>
      [] s = "calm  WIND\t" -> <<"c", "a", "l", "m", " ", " ", "W", "I", "N", "D", "\t">>
      [] s = "quit" -> <<"q", "u", "i", "t">>
      [] s = "QUIT" -> <<"Q", "U", "I", "T">>
      [] s = " Exit " -> <<" ", "E", "x", "i", "t", " ">>
      [] s = "exit" -> <<"e", "x", "i", "t">>
      [] s = "Exit" -> <<"E", "x", "i", "t">>
      [] s = "q" -> <<"q">>
      [] s = "Q" -> <<"Q">>
      [] s = "\tquit " -> <<"\t", "q", "u", "i", "t", " ">>
      [] s = "help" -> <<"h", "e", "l", "p">>
      [] s = "HELP" -> <<"H", "E", "L", "P">>
      [] s = "examples" -> <<"e", "x", "a", "m", "p", "l", "e", "s">>
      [] s = "sounds" -> <<"s", "o", "u", "n", "d", "s">>
      [] s = "save" -> <<"s", "a", "v", "e">>
      [] s = "Save" -> <<"S", "a", "v", "e">>
      [] s = " sea " -> <<" ", "s", "e", "a", " ">>
      [] s = "peaceful underwater whale" -> <<"p", "e", "a", "c", "e", "f", "u", "l", " ", "u", "n", "d", "e", "r", "w", "a", "t", "e", "r", " ", "w", "h", "a", "l", "e">>
      [] s = "quit now" -> <<"q", "u", "i", "t", " ", "n", "o", "w">>
      [] s = "my.json" -> <<"m", "y", ".", "j", "s", "o", "n">>
      [] s = " my.json " -> <<" ", "m", "y", ".", "j", "s", "o", "n", " ">>
      [] s = "/missing/m.json" -> <<"/", "m", "i", "s", "s", "i", "n", "g", "/", "m", ".", "j", "s", "o", "n">>
      [] s = "y" -> <<"y">>
      [] s = "n" -> <<"n">>

UpperCase == <<"A", "B", "C", "D", "E", "F", "G", "H", "I", "J", "K", "L", "M",
               "N", "O", "P", "Q", "R", "S", "T", "U", "V", "W", "X", "Y", "Z">>
LowerCase == <<"a", "b", "c", "d", "e", "f", "g", "h", "i", "j", "k", "l", "m",
               "n", "o", "p", "q", "r", "s", "t", "u", "v", "w", "x", "y", "z">>
Whitespace == {" ", "\t"}

\* str.lower(), character by character
lower(cs) ==
    [i \in DOMAIN cs |->
        IF \E j \in DOMAIN UpperCase : UpperCase[j] = cs[i]
        THEN LowerCase[CHOOSE j \in DOMAIN UpperCase : UpperCase[j] = cs[i]]
        ELSE cs[i]]

\* str.split() with no separator: the maximal runs of non-whitespace
\* str.strip()
strip(cs) ==
    LET inner == {i \in DOMAIN cs : cs[i] \notin Whitespace}
    IN IF inner = {} THEN <<>>
       ELSE SubSeq(cs, CHOOSE i \in inner : \A j \in inner : i <= j,
                       CHOOSE i \in inner : \A j \in inner : j <= i)

RECURSIVE SplitFrom(_, _, _)
SplitFrom(cs, i, word) ==
    IF i > Len(cs)
    THEN IF word = <<>> THEN <<>> ELSE <<word>>
    ELSE IF cs[i] \in Whitespace
         THEN IF word = <<>> THEN SplitFrom(cs, i + 1, <<>>)
              ELSE <<word>> \o SplitFrom(cs, i + 1, <<>>)
         ELSE SplitFrom(cs, i + 1, Append(word, cs[i]))

split(cs) == SplitFrom(cs, 1, <<>>)

\* Python's `word in sound_name` for two str
IsSubstring(word, name) ==
    \E k \in 0..(Len(name) - Len(word)) :
        \A i \in 1..Len(word) : name[k + i] = word[i]

-----------------------------------------------------------------------------
(* Prompt matching *)

\* `word in semantic_map`
InSemanticMap(word) == \E k \in DOMAIN semantic_map : Chars(k) = word

\* a lookup that keeps only the first entry of the word's list
MapTargetsFirst(word) ==
    IF InSemanticMap(word)
    THEN LET k == CHOOSE k \in DOMAIN semantic_map : Chars(k) = word
         IN {semantic_map[k][1]}
    ELSE {}

\* semantic_map[word], as the set of its entries
MapTargets(word) ==
    IF InSemanticMap(word)
    THEN LET k == CHOOSE k \in DOMAIN semantic_map : Chars(k) = word
         IN {semantic_map[k][i] : i \in DOMAIN semantic_map[k]}
    ELSE {}

-----------------------------------------------------------------------------
(* Numbers: a float is an exact rational <<n, d>> with d > 0, in lowest terms *)

Abs(x) == IF x < 0 THEN -x ELSE x

RECURSIVE GCD(_, _)
GCD(a, b) == IF b = 0 THEN a ELSE GCD(b, a % b)

Rat(n, d) ==
    LET Reduce(g) == IF d < 0 THEN <<(-n) \div g, (-d) \div g>>
                     ELSE <<n \div g, d \div g>>
    IN Reduce(GCD(Abs(n), Abs(d)))

RAdd(a, b) == Rat(a[1] * b[2] + b[1] * a[2], a[2] * b[2])
RMul(a, b) == Rat(a[1] * b[1], a[2] * b[2])
RDiv(a, b) == Rat(a[1] * b[2], a[2] * b[1])
RGt(a, b) == a[1] * b[2] > b[1] * a[2]
RLt(a, b) == RGt(b, a)

\* the sum of a list of rationals, reduced once at the end
RECURSIVE SumFrom(_, _, _)
SumFrom(xs, i, acc) ==
    IF i > Len(xs) THEN Rat(acc[1], acc[2])
    ELSE SumFrom(xs, i + 1, <<acc[1] * xs[i][2] + xs[i][1] * acc[2], acc[2] * xs[i][2]>>)

RSum(xs) == SumFrom(xs, 1, <<0, 1>>)

\* values of a feature dictionary, tagged with the Python type the code tests
Float(r) == [t |-> "float", v |-> r]
NdArray(a) == [t |-> "ndarray", v |-> a]
Dict(d) == [t |-> "dict", v |-> d]
List(l) == [t |-> "list", v |-> l]

Untag(values) == [i \in DOMAIN values |-> values[i].v]

\* the integer nearest to the rational r >= 0, the even one of two as near
NearestEven(r) ==
    LET q == r[1] \div r[2]
        twice == 2 * (r[1] % r[2])
    IN IF twice < r[2] \/ (twice = r[2] /\ q % 2 = 0) THEN q ELSE q + 1

\* r > 0 rounded to p significant bits
RECURSIVE RoundPos(_, _)
RoundPos(r, p) ==
    IF r[1] >= (2 ^ p) * r[2] THEN RMul(<<2, 1>>, RoundPos(RDiv(r, <<2, 1>>), p))
    ELSE IF r[1] < (2 ^ (p - 1)) * r[2]
    THEN RDiv(RoundPos(RMul(<<2, 1>>, r), p), <<2, 1>>)
    ELSE <<NearestEven(r), 1>>

\* the floating point number of p significant bits nearest to r, ties to
\* even; p = 0 stands for exact arithmetic
Round(r, p) ==
    IF p = 0 \/ r[1] = 0 THEN r
    ELSE IF (r[1] < 0) # (r[2] < 0)
    THEN RMul(<<-1, 1>>, RoundPos(Rat(Abs(r[1]), Abs(r[2])), p))
    ELSE RoundPos(Rat(Abs(r[1]), Abs(r[2])), p)

\* the result of one floating point operation
Fl(r) == Round(r, precision)

\* the sum of a list of numbers, added one after the other
RECURSIVE FSumFrom(_, _, _)
FSumFrom(xs, i, acc) ==
    IF i > Len(xs) THEN acc
    ELSE FSumFrom(xs, i + 1, Fl(RAdd(acc, xs[i])))

FSum(xs) == IF precision = 0 THEN RSum(xs) ELSE FSumFrom(xs, 1, <<0, 1>>)

\* a mean that forgets to divide by the number of values
NpSum(values) == FSum(values)

\* np.mean(values) of a list of numbers
np_mean(values) == Fl(RDiv(FSum(values), <<Len(values), 1>>))

\* np.mean(values, axis=0) of a list of equally long arrays
np_mean_axis0(arrays) ==
    [j \in DOMAIN arrays[1] |-> np_mean([i \in DOMAIN arrays |-> arrays[i][j]])]

\* an average that forgets to divide by the sum of the weights
NpAverageUnscaled(values, w) ==
    FSum([i \in DOMAIN values |->
            Fl(<<values[i][1] * w[i][1], values[i][2] * w[i][2]>>)])

\* np.average(values, weights=w): sum(v * w) / sum(w)
np_average(values, w) ==
    Fl(RDiv(FSum([i \in DOMAIN values |->
                    Fl(<<values[i][1] * w[i][1], values[i][2] * w[i][2]>>)]),
            FSum(w)))

\* np.average(values, axis=0, weights=w)
np_average_axis0(arrays, w) ==
    [j \in DOMAIN arrays[1] |-> np_average([i \in DOMAIN arrays |-> arrays[i][j]], w)]

\* the positions of the dictionaries of a list that hold key, in list order
Holding(dicts, key) ==
    SelectSeq([i \in DOMAIN dicts |-> i], LAMBDA i : key \in DOMAIN dicts[i])

\* [d[key] for d in dicts if key in d]
ValuesAt(dicts, key) ==
    LET Pick(at) == [i \in DOMAIN at |-> dicts[at[i]][key]]
    IN Pick(Holding(dicts, key))

\* the weights zipped with the dictionaries that hold key
WeightsAt(dicts, key, w) ==
    LET Pick(at) == [i \in DOMAIN at |-> w[at[i]]]
    IN Pick(Holding(dicts, key))

AllKeys(dicts) == UNION {DOMAIN dicts[i] : i \in DOMAIN dicts}

-----------------------------------------------------------------------------
(* Aggregation *)

RECURSIVE average_features(_)
average_features(feature_list) ==
    IF feature_list = <<>> THEN EmptyDict
    ELSE [key \in AllKeys(feature_list) |->
            LET Averaged(values) ==
                    CASE values[1].t = "dict" ->
                            Dict(average_features(Untag(values)))
                      [] values[1].t = "ndarray" ->
                            NdArray(np_mean_axis0(Untag(values)))
                      [] OTHER ->
                            Float(np_mean(Untag(values)))
            IN Averaged(ValuesAt(feature_list, key))]

blend_dict_values(dicts, w) ==
    [key \in AllKeys(dicts) |->
        LET Blended(values, sliced) ==
                IF values[1].t = "ndarray"
                THEN NdArray(np_average_axis0(Untag(values), sliced))
                ELSE Float(np_average(Untag(values), sliced))
        IN Blended(ValuesAt(dicts, key), SubSeq(w, 1, Len(Holding(dicts, key))))]

\* weights=None: [1.0 / len(sound_names)] * len(sound_names)
DefaultWeights(names) == [i \in DOMAIN names |-> Fl(<<1, Len(names)>>)]

\* the body of _blend_sounds once weights and latents are there
BlendLatents(latents, w) ==
    [key \in AllKeys(latents) |->
        LET Blended(values, valid_weights) ==
                CASE values[1].t = "dict" ->
                        Dict(blend_dict_values(Untag(values), valid_weights))
                  [] values[1].t = "ndarray" ->
                        NdArray(np_average_axis0(Untag(values), valid_weights))
                  [] OTHER ->
                        Float(np_average(Untag(values), valid_weights))
        IN Blended(ValuesAt(latents, key), WeightsAt(latents, key, w))]

\* _blend_sounds(sound_names, weights) on the learned sounds: the exception
\* it raises ("none" when it returns) and the blended dictionary
blend_sounds(names, w, sounds) ==
    IF w.t = "NoneType" /\ names = <<>>
    THEN [exc |-> "ZeroDivisionError", value |-> None]
    ELSE IF \E i \in DOMAIN names : names[i] \notin DOMAIN sounds
    THEN [exc |-> "KeyError", value |-> None]
    ELSE [exc |-> "none",
          value |-> BlendLatents([i \in DOMAIN names |-> sounds[names[i]]],
                                 IF w.t = "NoneType" THEN DefaultWeights(names)
                                 ELSE w.v)]
-----------------------------------------------------------------------------
(* Feature extraction.  The signal processing is not modelled: a decoded    *)
(* clip is one of the Audio profiles, and the features of a profile are a   *)
(* dictionary of the ten descriptors, as the code builds it.                *)

\* the model keeps the first NumCoeffs of the n_mfcc = 13 coefficients of the
\* timbre vector; every operation on it is element-wise
NumCoeffs == 2

Audio == {"lo", "hi"}

extract_semantic_features(audio) ==
    IF audio = "lo"
    THEN [emotional_valence   |-> Float(<<-1, 2>>),
          energy_level        |-> Float(<<1, 10>>),
          temporal_complexity |-> Float(<<2, 5>>),
          harmonic_richness   |-> Float(<<1, 5>>),
          spectral_trajectory |-> Float(<<-1, 5>>),
          textural_density    |-> Float(<<1, 5>>),
          timbre_vector       |-> NdArray([i \in 1..NumCoeffs |-> <<-i, 1>>]),
          onset_pattern       |-> Dict([mean_ioi     |-> Float(<<0, 1>>),
                                        ioi_variance |-> Float(<<0, 1>>),
                                        num_onsets   |-> Float(<<0, 1>>)]),
          pitch_profile       |-> Dict([mean_pitch     |-> Float(<<0, 1>>),
                                        pitch_range    |-> Float(<<0, 1>>),
                                        pitch_variance |-> Float(<<0, 1>>)]),
          spatial_openness    |-> Float(<<1, 5>>)]
    ELSE [emotional_valence   |-> Float(<<1, 2>>),
          energy_level        |-> Float(<<1, 5>>),
          temporal_complexity |-> Float(<<3, 5>>),
          harmonic_richness   |-> Float(<<4, 5>>),
          spectral_trajectory |-> Float(<<1, 5>>),
          textural_density    |-> Float(<<4, 5>>),
          timbre_vector       |-> NdArray([i \in 1..NumCoeffs |-> <<2 * i, 1>>]),
          onset_pattern       |-> Dict([mean_ioi     |-> Float(<<10, 1>>),
                                        ioi_variance |-> Float(<<4, 1>>),
                                        num_onsets   |-> Float(<<5, 1>>)]),
          pitch_profile       |-> Dict([mean_pitch     |-> Float(<<440, 1>>),
                                        pitch_range    |-> Float(<<100, 1>>),
                                        pitch_variance |-> Float(<<25, 1>>)]),
          spatial_openness    |-> Float(<<4, 5>>)]

-----------------------------------------------------------------------------
(* Training.  fs maps each existing path to the entries of that directory,  *)
(* in iterdir order; an entry is [name, is_dir, files] and a file is        *)
(* [ext, audio], audio "corrupt" when loading it raises.                    *)

\* the samples loop without its try/except: the first clip that fails to
\* load raises out of the loop
CategorySamplesNoCatch(files) ==
    LET Wavs(fl) == SelectSeq(fl, LAMBDA f : f.ext = "wav")
        FirstBad(w) == IF \E i \in DOMAIN w : w[i].audio = "corrupt"
                       THEN CHOOSE i \in DOMAIN w :
                               /\ w[i].audio = "corrupt"
                               /\ \A j \in 1..(i - 1) : w[j].audio # "corrupt"
                       ELSE Len(w) + 1
    IN [exc |-> IF FirstBad(Wavs(files)) <= Len(Wavs(files)) THEN "LoadError" ELSE "none",
        samples |-> [i \in 1..(FirstBad(Wavs(files)) - 1) |->
                        extract_semantic_features(Wavs(files)[i].audio)]]

\* the samples list of one category directory: the features of every
\* *.wav file whose load and feature extraction succeed, in glob order;
\* exc is the exception leaving the loop ("none": each one is caught)
RECURSIVE CategorySamples(_)
CategorySamples(files) ==
    IF files = <<>> THEN [exc |-> "none", samples |-> <<>>]
    ELSE LET Loaded(f, rest) ==
                 IF f.ext # "wav" \/ f.audio = "corrupt"
                 THEN rest
                 ELSE [exc |-> rest.exc,
                       samples |-> <<extract_semantic_features(f.audio)>>
                                   \o rest.samples]
         IN Loaded(Head(files), CategorySamples(Tail(files)))

\* one iteration of `for category_dir in tier_dir.iterdir()`
LearnCategory(st, entry) ==
    IF st.exc # "none" \/ ~entry.is_dir THEN st
    ELSE LET Learned(got) ==
                 IF got.exc # "none" THEN [st EXCEPT !.exc = got.exc]
                 ELSE IF got.samples = <<>> THEN st
                 ELSE [st EXCEPT
                         !.sounds = [n \in DOMAIN st.sounds \cup {entry.name} |->
                                        IF n = entry.name
                                        THEN average_features(got.samples)
                                        ELSE st.sounds[n]],
                         !.total = st.total + 1]
         IN Learned(CategorySamples(entry.files))

RECURSIVE LearnEntries(_, _)
LearnEntries(st, entries) ==
    IF entries = <<>> THEN st
    ELSE LearnEntries(LearnCategory(st, Head(entries)), Tail(entries))

\* one iteration of `for tier_path, tier_name in all_tiers`
LearnTier(st, tier_path, tree) ==
    IF tier_path \notin DOMAIN tree THEN st
    ELSE LearnEntries(st, tree[tier_path])

\* train_atomic_sounds(tier1_path, tier2_path, tier3_path): the learned
\* sounds, the count it prints and the exception leaving it
train_atomic_sounds(paths, tree, sounds) ==
    LearnTier(LearnTier(LearnTier([sounds |-> sounds, total |-> 0, exc |-> "none"],
                                  paths[1], tree),
                        paths[2], tree),
              paths[3], tree)

-----------------------------------------------------------------------------
(* Scene generation *)

Categories == {"forest_ambience", "whale_song", "sealion_shrimp"}

Prompts ==
    {"", "  ", "peaceful underwater scene with whale", "calm wind",
     "dramatic storm", "busy coffee shop", "sea", "Whale", "shrimp", "piano",
     "calm  WIND\t"}

\* what may be typed at the interactive session only, without the blanks
\* around it
TypedPrompts ==
    {"quit now", "quit", "QUIT", "Exit", "exit", "q", "Q", "help", "HELP",
     "examples", "sounds", "save", "Save", "peaceful underwater whale"}

\* prompt.lower().split(), for each prompt of the model
Words == [p \in Prompts \cup TypedPrompts |-> split(lower(Chars(p)))]

AllWords == UNION {{Words[p][i] : i \in DOMAIN Words[p]} : p \in DOMAIN Words}

\* semantic_map.get(word, []) and the names that contain word, for each
\* word of the model's prompts
Targets == [word \in AllWords |-> MapTargets(word)]
Containing == [word \in AllWords |->
                 {name \in Categories : IsSubstring(word, Chars(name))}]

\* the semantic-map branch without its `if sound in self.atomic_sounds`
MapMatchesUnchecked(word, sounds) == Targets[word]

\* the sounds the semantic-map branch adds for one word
MapMatches(word, sounds) == {s \in Targets[word] : s \in DOMAIN sounds}

\* no substring loop
SubstringMatchesNone(word, sounds) == {}

\* the sounds the substring loop adds for one word
SubstringMatches(word, sounds) ==
    {sound_name \in DOMAIN sounds : sound_name \in Containing[word]}

\* what one iteration of `for word in words` adds to matched_sounds
WordMatches(word, sounds) == MapMatches(word, sounds) \cup SubstringMatches(word, sounds)

MatchedSounds(p, sounds) ==
    UNION {WordMatches(Words[p][i], sounds) : i \in DOMAIN Words[p]}

\* the lists list(matched_sounds) can be: the set in any iteration order
Listings(S) ==
    {l \in [1..Cardinality(S) -> S] : \A i, j \in DOMAIN l : i # j => l[i] # l[j]}

\* generate_scene_from_text without its `if not matched_sounds: return None`,
\* blending nothing into an empty latent
GenerateEmptyScene(p, sounds, listed) ==
    LET Scene(b) ==
            IF b.exc # "none" THEN [exc |-> b.exc, value |-> None]
            ELSE [exc |-> "none",
                  value |-> Dict([latent |-> b.value,
                                  components |-> listed,
                                  prompt |-> p])]
    IN IF listed = <<>>
       THEN Scene([exc |-> "none", value |-> EmptyDict])
       ELSE Scene(blend_sounds(listed, None, sounds))

\* generate_scene_from_text(prompt), with listed what list(matched_sounds)
\* gives: the exception it raises ("none" when it returns) and the scene
\* or None
generate_scene_from_text(p, sounds, listed) ==
    LET Scene(b) ==
            IF b.exc # "none" THEN [exc |-> b.exc, value |-> None]
            ELSE [exc |-> "none",
                  value |-> Dict([latent |-> b.value,
                                  components |-> listed,
                                  prompt |-> p])]
    IN IF MatchedSounds(p, sounds) = {} THEN [exc |-> "none", value |-> None]
       ELSE Scene(blend_sounds(listed, None, sounds))

-----------------------------------------------------------------------------
(* Internal listening *)

\* latent.get(key, 0)
\* a lookup whose default is 1 instead of 0
GetDefaultOne(latent, key) ==
    IF key \in DOMAIN latent THEN latent[key].v ELSE <<1, 1>>

\* latent.get(key, 0)
Get(latent, key) == IF key \in DOMAIN latent THEN latent[key].v ELSE <<0, 1>>

Interpret(latent) ==
    LET valence == Get(latent, "emotional_valence")
        energy == Get(latent, "energy_level")
        complexity == Get(latent, "temporal_complexity")
        harmonic == Get(latent, "harmonic_richness")
        motion == Get(latent, "spectral_trajectory")
        texture == Get(latent, "textural_density")
        space == Get(latent, "spatial_openness")
    IN [mood |-> IF RGt(valence, <<3, 10>>) THEN "positive/uplifting"
                 ELSE IF RLt(valence, <<-3, 10>>) THEN "negative/melancholic"
                 ELSE "neutral/ambient",
        energy |-> IF RGt(energy, <<3, 20>>) THEN "high (active/intense)"
                   ELSE IF RGt(energy, <<1, 20>>) THEN "medium (moderate)"
                   ELSE "low (calm/quiet)",
        pattern |-> IF RGt(complexity, <<1, 2>>) THEN "complex/unpredictable"
                    ELSE "simple/regular",
        character |-> IF RGt(harmonic, <<3, 5>>) THEN "tonal/melodic"
                      ELSE IF RGt(harmonic, <<3, 10>>) THEN "mixed (tonal + noise)"
                      ELSE "noisy/percussive",
        evolution |-> IF RGt(motion, <<1, 10>>) THEN "brightening (rising energy)"
                      ELSE IF RLt(motion, <<-1, 10>>) THEN "darkening (falling energy)"
                      ELSE "stable (unchanging)",
        texture |-> IF RGt(texture, <<3, 5>>) THEN "dense/rich (many layers)"
                    ELSE IF RGt(texture, <<3, 10>>) THEN "moderate"
                    ELSE "sparse/simple (few elements)",
        space |-> IF RGt(space, <<3, 5>>) THEN "open/expansive (outdoor feeling)"
                  ELSE IF RGt(space, <<3, 10>>) THEN "medium"
                  ELSE "enclosed/intimate (indoor feeling)"]

\* The excerpt of the latent that listen_internal prints before returning is
\* not part of the result; it prints numbers, arrays of two or more
\* coefficients and non-empty nested dictionaries, as every latent here is.

\* `not scene_representation`
Falsy(x) == x.t = "NoneType" \/ (x.t = "dict" /\ DOMAIN x.v = {})

\* listen_internal(scene_representation): the exception it raises and the
\* interpretation or None
listen_internal(scene_representation) ==
    IF Falsy(scene_representation) THEN [exc |-> "none", value |-> None]
    ELSE IF {"latent", "components", "prompt"} \subseteq DOMAIN scene_representation.v
    THEN [exc |-> "none", value |-> Dict(Interpret(scene_representation.v.latent))]
    ELSE [exc |-> "KeyError", value |-> None]

-----------------------------------------------------------------------------
(* Saving *)

RECURSIVE make_serializable(_)
make_serializable(obj) ==
    [k \in DOMAIN obj |->
        CASE obj[k].t = "ndarray" -> List(obj[k].v)
          [] obj[k].t = "dict" -> Dict(make_serializable(obj[k].v))
          [] OTHER -> obj[k]]

\* the data dictionary save_model dumps
SavedData(sounds, scapes) ==
    Dict([atomic_sounds |-> [n \in DOMAIN sounds |-> make_serializable(sounds[n])],
          soundscapes |-> [n \in DOMAIN scapes |-> make_serializable(scapes[n])]])
-----------------------------------------------------------------------------
(* The inputs the model draws from *)

TierPaths == {"Tier_1", "Tier_2", "Tier_3"}

DefaultPaths == <<"Tier_1", "Tier_2", "Tier_3">>

\* the path arguments of a train_atomic_sounds call: the defaults, or one
\* directory given for all three tiers
TrainArgs == {DefaultPaths} \cup {<<p, p, p>> : p \in TierPaths}

Wav(audio) == [ext |-> "wav", audio |-> audio]
Entry(name, files) == [name |-> name, is_dir |-> TRUE, files |-> files]
Opt(present, entry) == IF present THEN <<entry>> ELSE <<>>

\* the training trees of the scene specification: base layers in Tier_1,
\* events in Tier_2, no Tier_3; any subset of the categories is there
SceneTree(S) ==
    [p \in {"Tier_1", "Tier_2"} |->
        IF p = "Tier_1"
        THEN Opt("forest_ambience" \in S, Entry("forest_ambience", <<Wav("lo")>>))
        ELSE Opt("whale_song" \in S, Entry("whale_song", <<Wav("hi")>>))
             \o Opt("sealion_shrimp" \in S,
                    Entry("sealion_shrimp", <<Wav("lo"), Wav("hi")>>))]

SceneTrees == {SceneTree(S) : S \in SUBSET Categories}

-----------------------------------------------------------------------------
(* The engine as a state machine *)

\* SceneAudioEngine(), before any call
InitEngine ==
    /\ InitOthers
    /\ atomic_sounds = EmptyDict
    /\ soundscapes = EmptyDict
    /\ semantic_vocabulary = EmptyDict
    /\ model_file = None
    /\ tier_paths = DefaultPaths
    /\ total_learned = 0
    /\ prompt = ""
    /\ scene = None
    /\ interpretation = None
    /\ sound_names = <<>>
    /\ weights = None
    /\ blended = None
    /\ error = "none"
    /\ last_call = "__init__"

Init ==
    /\ fs \in SceneTrees
    /\ InitEngine

\* engine.train_atomic_sounds(t1, t2, t3); no scene is held across training
Train ==
    \E args \in TrainArgs :
        \E r \in {train_atomic_sounds(args, fs, atomic_sounds)} :
           /\ atomic_sounds' = r.sounds
           /\ total_learned' = r.total
           /\ error' = r.exc
           /\ tier_paths' = args
           /\ prompt' = ""
           /\ scene' = None
           /\ interpretation' = None
           /\ last_call' = "train"
           /\ UNCHANGED <<others, fs, soundscapes, semantic_vocabulary,
                          model_file, sound_names, weights, blended>>

\* a generate call that also files the scene under soundscapes
GenerateRemembering ==
    \E p \in Prompts :
      \E listed \in Listings(MatchedSounds(p, atomic_sounds)) :
        \E r \in {generate_scene_from_text(p, atomic_sounds, listed)} :
           /\ prompt' = p
           /\ scene' = r.value
           /\ error' = r.exc
           /\ interpretation' = None
           /\ last_call' = "generate"
           /\ soundscapes' =
                  IF r.value.t = "dict"
                  THEN [n \in DOMAIN soundscapes \cup {p} |->
                           IF n = p THEN r.value.v.latent ELSE soundscapes[n]]
                  ELSE soundscapes
           /\ UNCHANGED <<others, fs, atomic_sounds, semantic_vocabulary, model_file,
                          tier_paths, total_learned, sound_names, weights,
                          blended>>

\* scene = engine.generate_scene_from_text(prompt)
Generate ==
    \E p \in Prompts :
      \E listed \in Listings(MatchedSounds(p, atomic_sounds)) :
        \E r \in {generate_scene_from_text(p, atomic_sounds, listed)} :
           /\ prompt' = p
           /\ scene' = r.value
           /\ error' = r.exc
           /\ interpretation' = None
           /\ last_call' = "generate"
           /\ UNCHANGED <<others, fs, atomic_sounds, soundscapes,
                          semantic_vocabulary, model_file, tier_paths,
                          total_learned, sound_names, weights, blended>>

\* interpretation = engine.listen_internal(scene)
Listen ==
    \E r \in {listen_internal(scene)} :
       /\ interpretation' = r.value
       /\ error' = r.exc
       /\ last_call' = "listen"
       /\ UNCHANGED <<others, fs, atomic_sounds, soundscapes,
                      semantic_vocabulary, model_file, tier_paths, total_learned,
                      prompt, scene, sound_names, weights, blended>>

\* engine.save_model()
SaveModel ==
    /\ model_file' = SavedData(atomic_sounds, soundscapes)
    /\ error' = "none"
    /\ last_call' = "save"
    /\ UNCHANGED <<others, fs, atomic_sounds, soundscapes, semantic_vocabulary,
                   tier_paths, total_learned, prompt, scene, interpretation,
                   sound_names, weights, blended>>

Next == Train \/ Generate \/ Listen \/ SaveModel

Spec == Init /\ [][Next]_vars
-----------------------------------------------------------------------------
(* Training on its own: richer directory trees *)

MaxClips == 2

Txt == [ext |-> "txt", audio |-> "corrupt"]
Stray == [name |-> "README", is_dir |-> FALSE, files |-> <<>>]

\* the listings of *.wav files of a category directory, up to MaxClips long
RECURSIVE ClipLists(_)
ClipLists(n) ==
    IF n = 0 THEN {<<>>}
    ELSE ClipLists(n - 1) \cup
         {Append(l, Wav(a)) : l \in {m \in ClipLists(n - 1) : Len(m) = n - 1},
                              a \in Audio \cup {"corrupt"}}

\* a category directory that may be absent: dir is <<>> or <<its *.wav files>>;
\* every category directory also holds a text file
OptEntry(name, dir) ==
    IF dir = <<>> THEN <<>> ELSE <<Entry(name, dir[1] \o <<Txt>>)>>

\* Tier_1 holds a stray file and maybe whale_song, and is missing without it;
\* Tier_2 holds maybe whale_song again and maybe sealion_shrimp; no Tier_3
TrainTree(a, b, c) ==
    [p \in (IF a = <<>> THEN {} ELSE {"Tier_1"}) \cup {"Tier_2"} |->
        IF p = "Tier_1"
        THEN <<Stray>> \o OptEntry("whale_song", a)
        ELSE OptEntry("sealion_shrimp", c) \o OptEntry("whale_song", b)]

TrainTrees ==
    {TrainTree(a, b, c) :
        a \in {<<>>} \cup {<<l>> : l \in ClipLists(MaxClips)},
        b \in {<<>>, <<<<>>>>, <<<<Wav("lo")>>>>, <<<<Wav("lo"), Wav("hi")>>>>,
               <<<<Wav("corrupt")>>>>},
        c \in {<<>>, <<<<Wav("lo")>>>>, <<<<Wav("corrupt"), Wav("hi")>>>>}}

InitTrain ==
    /\ fs \in TrainTrees
    /\ InitEngine

SpecTrain == InitTrain /\ [][Train]_vars

-----------------------------------------------------------------------------
(* _blend_sounds on its own: sounds whose dictionaries lack keys, and       *)
(* explicit weights                                                         *)

MaxWeight == 2

\* the dictionary of sound number i (1, 2, 3) in one of five shapes
BlendDict(i, shape) ==
    LET energy == Float(<<i, 10>>)
        timbre == NdArray(<<<<i, 1>>, <<-i * i, 1>>>>)
        ioi == Float(<<i * i, 1>>)
        onsets == Float(<<2 * i + 1, 1>>)
    IN CASE shape = "full" ->
              [energy_level |-> energy, timbre_vector |-> timbre,
               onset_pattern |-> Dict([mean_ioi |-> ioi, num_onsets |-> onsets])]
         [] shape = "no_timbre" ->
              [energy_level |-> energy,
               onset_pattern |-> Dict([num_onsets |-> onsets])]
         [] shape = "no_energy" ->
              [timbre_vector |-> timbre,
               onset_pattern |-> Dict([mean_ioi |-> ioi])]
         [] shape = "no_nested" ->
              [energy_level |-> energy, timbre_vector |-> timbre]
         [] OTHER ->
              [onset_pattern |-> Dict(EmptyDict)]

Shapes == {"full", "no_timbre", "no_energy", "no_nested", "empty_nested"}

SoundNumber(name) ==
    CASE name = "forest_ambience" -> 1 [] name = "whale_song" -> 2 [] OTHER -> 3

BlendSounds ==
    {[name \in Categories |-> BlendDict(SoundNumber(name), sh[name])] :
        sh \in [Categories -> Shapes]}

NameLists == UNION {Listings(S) : S \in SUBSET Categories \ {{}}}

WeightLists(n) == {None} \cup {List([i \in 1..n |-> <<w[i], 1>>]) : w \in [1..n -> 1..MaxWeight]}

InitBlend ==
    /\ InitOthers
    /\ fs \in {SceneTree({})}
    /\ atomic_sounds \in BlendSounds
    /\ soundscapes = EmptyDict
    /\ semantic_vocabulary = EmptyDict
    /\ model_file = None
    /\ tier_paths = DefaultPaths
    /\ total_learned = 0
    /\ prompt = ""
    /\ scene = None
    /\ interpretation = None
    /\ sound_names \in NameLists
    /\ weights \in WeightLists(Len(sound_names))
    /\ blended = None
    /\ error = "none"
    /\ last_call = "__init__"

\* blended = engine._blend_sounds(sound_names, weights)
Blend ==
    \E r \in {blend_sounds(sound_names, weights, atomic_sounds)} :
       /\ blended' = IF r.exc = "none" THEN Dict(r.value) ELSE None
       /\ error' = r.exc
       /\ last_call' = "_blend_sounds"
       /\ UNCHANGED <<others, fs, atomic_sounds, soundscapes, semantic_vocabulary,
                      model_file, tier_paths, total_learned, prompt, scene,
                      interpretation, sound_names, weights>>

SpecBlend == InitBlend /\ [][Blend]_vars

-----------------------------------------------------------------------------
(* listen_internal on its own: None, an empty scene, and scenes whose       *)
(* latent holds any subset of the seven descriptors at any level            *)

Levels ==
    [emotional_valence   |-> {<<-1, 2>>, <<1, 10>>, <<1, 2>>},
     energy_level        |-> {<<1, 50>>, <<1, 10>>, <<1, 5>>},
     temporal_complexity |-> {<<2, 5>>, <<3, 5>>},
     harmonic_richness   |-> {<<1, 5>>, <<2, 5>>, <<4, 5>>},
     spectral_trajectory |-> {<<-1, 5>>, <<0, 1>>, <<1, 5>>},
     textural_density    |-> {<<1, 5>>, <<2, 5>>, <<4, 5>>},
     spatial_openness    |-> {<<1, 5>>, <<2, 5>>, <<4, 5>>}]

Descriptors == DOMAIN Levels

\* every latent over the descriptors K: each one missing or at one of its levels
RECURSIVE LatentsOver(_)
LatentsOver(K) ==
    IF K = {} THEN {EmptyDict}
    ELSE LET k == CHOOSE x \in K : TRUE
             rest == LatentsOver(K \ {k})
         IN rest \cup
            {[x \in DOMAIN l \cup {k} |-> IF x = k THEN Float(v) ELSE l[x]] :
                l \in rest, v \in Levels[k]}

ListenInputs ==
    {None, Dict(EmptyDict)} \cup
    {Dict([latent |-> l, components |-> <<"whale_song">>, prompt |-> "Whale"]) :
        l \in LatentsOver(Descriptors)}

InitListen ==
    /\ InitOthers
    /\ fs \in {SceneTree({})}
    /\ atomic_sounds = EmptyDict
    /\ soundscapes = EmptyDict
    /\ semantic_vocabulary = EmptyDict
    /\ model_file = None
    /\ tier_paths = DefaultPaths
    /\ total_learned = 0
    /\ prompt = ""
    /\ scene \in ListenInputs
    /\ interpretation = None
    /\ sound_names = <<>>
    /\ weights = None
    /\ blended = None
    /\ error = "none"
    /\ last_call = "__init__"

SpecListen == InitListen /\ [][Listen]_vars
-----------------------------------------------------------------------------
(* Properties of scene generation, under Spec *)

Generated == last_call = "generate"
Returned == Generated /\ scene.t = "dict"
Components ==
    IF scene.t = "dict" /\ "components" \in DOMAIN scene.v
    THEN {scene.v.components[i] : i \in DOMAIN scene.v.components}
    ELSE {}
PromptWords == {Words[prompt][i] : i \in DOMAIN Words[prompt]}
LearnedNames == DOMAIN atomic_sounds

\* C1 (as claimed): substring matching is a fallback.  Every component of a
\* returned scene comes from some prompt word either as a learned entry of
\* that word's semantic-map list, or as a name containing the word when the
\* semantic-map lookup added no learned sound for that word.
C1_SubstringOnlyAsFallback ==
    Returned =>
        \A s \in Components :
            \E word \in PromptWords :
                \/ s \in Targets[word] \cap LearnedNames
                \/ /\ Targets[word] \cap LearnedNames = {}
                   /\ s \in Containing[word]

\* C2: generate_scene_from_text raises nothing, and returns None exactly when
\* no prompt word is a semantic-map key with a learned target or a substring
\* of a learned name; so it returns None when nothing is learned and when
\* the prompt has no words.
C2_NoneIffNoMatch ==
    Generated =>
        /\ error = "none"
        /\ scene = None <=>
              \A word \in PromptWords : \A name \in LearnedNames :
                  name \notin Targets[word] /\ name \notin Containing[word]
        /\ (LearnedNames = {} \/ PromptWords = {}) => scene = None

\* C2 witness: a prompt with words found nothing among learned sounds
C2_Witness ==
    /\ Generated /\ scene = None /\ error = "none"
    /\ PromptWords # {} /\ LearnedNames # {}

\* C3: a returned scene lists at least one component, no name twice, every
\* name learned; the call never fails on a sound that is not learned.
C3_ComponentsLearned ==
    Generated =>
        /\ error = "none"
        /\ scene.t = "dict" =>
              /\ Len(scene.v.components) >= 1
              /\ Cardinality(Components) = Len(scene.v.components)
              /\ Components \subseteq LearnedNames

\* C3 witness: a scene from a prompt whose words map to thunder, which is
\* never learned, and to learned sounds
C3_Witness ==
    /\ Returned /\ prompt = "dramatic storm"
    /\ "thunder" \in Targets[<<"s", "t", "o", "r", "m">>]
    /\ "thunder" \notin LearnedNames
    /\ Components = {"whale_song", "forest_ambience"}

\* C4: for every prompt word that is a key of the semantic map, every
\* learned sound of its list is a component of the scene the call returns.
C4_MappedLearnedIncluded ==
    Generated =>
        \A word \in PromptWords : \A k \in DOMAIN semantic_map :
            Chars(k) = word =>
                \A j \in DOMAIN semantic_map[k] :
                    semantic_map[k][j] \in LearnedNames =>
                        Returned /\ semantic_map[k][j] \in Components

\* C4 witness: "calm wind" with forest_ambience the only learned sound
C4_Witness ==
    /\ Returned /\ prompt = "calm wind"
    /\ LearnedNames = {"forest_ambience"}
    /\ Components = {"forest_ambience"}

\* C7 (as claimed): every returned scene has at least two components.
C7_AtLeastTwoComponents == Returned => Len(scene.v.components) >= 2

\* C7 (amended): every returned scene has at least one component.
C7_AtLeastOneComponent == Returned => Len(scene.v.components) >= 1

\* C7 witness: a scene blended from a single sound
C7_Witness == Returned /\ Len(scene.v.components) = 1

\* the scene the held prompt gives now, whatever order the set is listed in
Regenerated ==
    \A listed \in Listings(MatchedSounds(prompt, atomic_sounds)) :
        \E r \in {generate_scene_from_text(prompt, atomic_sounds, listed)} :
            /\ r.exc = "none"
            /\ r.value.t = "dict"
            /\ r.value.v.latent = scene.v.latent
            /\ {listed[i] : i \in DOMAIN listed} = Components

\* C9: a generate, listen or save call leaves atomic_sounds, soundscapes and
\* semantic_vocabulary as they were, and whenever a scene is held its prompt
\* still gives the components and the latent of that scene.
C9_NoOnlineAdaptation ==
    /\ [][last_call' \in {"generate", "listen", "save"} =>
             /\ atomic_sounds' = atomic_sounds
             /\ soundscapes' = soundscapes
             /\ semantic_vocabulary' = semantic_vocabulary]_vars
    /\ [](scene.t = "dict" => Regenerated)

\* C9 witness: a scene was generated, the model saved and the scene heard
C9_Witness ==
    /\ last_call = "listen" /\ interpretation.t = "dict"
    /\ model_file.t = "dict" /\ Cardinality(LearnedNames) >= 2
    /\ Cardinality(Components) >= 2
-----------------------------------------------------------------------------
(* Properties of training, under SpecTrain *)

Trained == last_call = "train"

\* the successfully loaded *.wav clips of a directory listing, in glob order
GoodClips(files) ==
    SelectSeq(files, LAMBDA f : f.ext = "wav" /\ f.audio # "corrupt")

ClipFeatures(clips) ==
    [i \in DOMAIN clips |-> extract_semantic_features(clips[i].audio)]

\* the category directories a call with these tier paths walks through, in
\* the order it meets them
VisitedDirs(paths, tree) ==
    LET Dirs(p) == IF p \in DOMAIN tree
                   THEN SelectSeq(tree[p], LAMBDA e : e.is_dir)
                   ELSE <<>>
    IN Dirs(paths[1]) \o Dirs(paths[2]) \o Dirs(paths[3])

\* m is the arithmetic mean of the numbers xs
IsMean(m, xs) == RSum(xs) = RMul(m, <<Len(xs), 1>>)

\* entry is the element-wise mean of the feature dictionaries: the same
\* keys and types, every number, array element and nested number the mean
\* of the samples' numbers at that place
IsElementwiseMean(entry, samples) ==
    /\ DOMAIN entry = UNION {DOMAIN samples[i] : i \in DOMAIN samples}
    /\ \A key \in DOMAIN entry :
          /\ \A i \in DOMAIN samples : key \in DOMAIN samples[i]
          /\ entry[key].t = samples[1][key].t
          /\ CASE entry[key].t = "float" ->
                     IsMean(entry[key].v, [i \in DOMAIN samples |-> samples[i][key].v])
               [] entry[key].t = "ndarray" ->
                     /\ DOMAIN entry[key].v = DOMAIN samples[1][key].v
                     /\ \A j \in DOMAIN entry[key].v :
                           IsMean(entry[key].v[j],
                                  [i \in DOMAIN samples |-> samples[i][key].v[j]])
               [] entry[key].t = "dict" ->
                     /\ DOMAIN entry[key].v = DOMAIN samples[1][key].v
                     /\ \A k \in DOMAIN entry[key].v :
                           /\ entry[key].v[k].t = "float"
                           /\ IsMean(entry[key].v[k].v,
                                     [i \in DOMAIN samples |-> samples[i][key].v[k].v])
               [] OTHER -> FALSE

\* C5 (as claimed): a training call leaves, for every category directory it
\* went through that has a successfully loaded clip, an entry under the
\* directory's name equal to the element-wise mean of that directory's
\* loaded clips; a category with no loaded clip in any directory gets no
\* entry from the call.
C5_PrototypeIsDirectoryMean ==
    [][last_call' = "train" =>
         LET Holds(dirs) ==
                 /\ \A i \in DOMAIN dirs :
                       GoodClips(dirs[i].files) # <<>> =>
                          /\ dirs[i].name \in DOMAIN atomic_sounds'
                          /\ IsElementwiseMean(atomic_sounds'[dirs[i].name],
                                    ClipFeatures(GoodClips(dirs[i].files)))
                 /\ \A n \in {dirs[i].name : i \in DOMAIN dirs}
                                 \cup DOMAIN atomic_sounds \cup DOMAIN atomic_sounds' :
                       (\A i \in DOMAIN dirs :
                           dirs[i].name = n => GoodClips(dirs[i].files) = <<>>) =>
                          /\ n \in DOMAIN atomic_sounds' <=> n \in DOMAIN atomic_sounds
                          /\ n \in DOMAIN atomic_sounds =>
                                 atomic_sounds'[n] = atomic_sounds[n]
         IN Holds(VisitedDirs(tier_paths', fs))]_vars

\* C5 (amended): a training call sets, for every category name, the entry to
\* the element-wise mean of the loaded clips of the last directory of that
\* name, in tier order, that has a loaded clip; a name with no such
\* directory keeps the entry it had before the call, or none.
C5_PrototypeIsLastDirectoryMean ==
    [][last_call' = "train" =>
         LET Holds(dirs) ==
                 LET Named(n) == SelectSeq(dirs, LAMBDA e :
                                     e.name = n /\ GoodClips(e.files) # <<>>)
                     Last(ds) == ds[Len(ds)]
                 IN /\ \A n \in {dirs[i].name : i \in DOMAIN dirs}
                                 \cup DOMAIN atomic_sounds \cup DOMAIN atomic_sounds' :
                         IF Named(n) # <<>>
                         THEN /\ n \in DOMAIN atomic_sounds'
                              /\ IsElementwiseMean(atomic_sounds'[n],
                                     ClipFeatures(GoodClips(Last(Named(n)).files)))
                         ELSE /\ n \in DOMAIN atomic_sounds' <=> n \in DOMAIN atomic_sounds
                              /\ n \in DOMAIN atomic_sounds =>
                                     atomic_sounds'[n] = atomic_sounds[n]
         IN Holds(VisitedDirs(tier_paths', fs))]_vars

\* C5 witness: whale_song is a directory of both tiers; its entry is the
\* mean of the two clips of the Tier_2 directory, not the Tier_1 clip
C5_Witness ==
    /\ Trained /\ tier_paths = DefaultPaths
    /\ \E i \in DOMAIN VisitedDirs(tier_paths, fs) :
          \E j \in DOMAIN VisitedDirs(tier_paths, fs) :
             /\ i < j
             /\ VisitedDirs(tier_paths, fs)[i].name = "whale_song"
             /\ VisitedDirs(tier_paths, fs)[j].name = "whale_song"
             /\ Len(GoodClips(VisitedDirs(tier_paths, fs)[i].files)) = 1
             /\ Len(GoodClips(VisitedDirs(tier_paths, fs)[j].files)) = 2
    /\ "whale_song" \in DOMAIN atomic_sounds
    /\ atomic_sounds["whale_song"].energy_level = Float(<<3, 20>>)
    /\ total_learned >= 2

\* the tree with every clip that fails to load removed and every missing
\* tier directory of the call there and empty
Repaired(paths, tree) ==
    [p \in DOMAIN tree \cup {paths[i] : i \in DOMAIN paths} |->
        IF p \in DOMAIN tree
        THEN [i \in DOMAIN tree[p] |->
                [tree[p][i] EXCEPT !.files =
                    SelectSeq(@, LAMBDA f : ~(f.ext = "wav" /\ f.audio = "corrupt"))]]
        ELSE <<>>]

\* C8: a training call raises nothing, and leaves the learned sounds as the
\* same call leaves them on the tree without the failing clips and with the
\* missing tier directories present and empty.
C8_LoadErrorsSkipped ==
    [][last_call' = "train" =>
         /\ error' = "none"
         /\ atomic_sounds' =
               train_atomic_sounds(tier_paths', Repaired(tier_paths', fs),
                                   atomic_sounds).sounds]_vars

\* C8 witness: Tier_1 and Tier_3 are missing, the first clip of
\* sealion_shrimp fails to load, and the clip after it is learned
C8_Witness ==
    /\ Trained /\ tier_paths = DefaultPaths /\ error = "none"
    /\ "Tier_1" \notin DOMAIN fs /\ "Tier_3" \notin DOMAIN fs
    /\ \E i \in DOMAIN fs["Tier_2"] :
          /\ fs["Tier_2"][i].name = "sealion_shrimp"
          /\ fs["Tier_2"][i].files[1] = Wav("corrupt")
          /\ fs["Tier_2"][i].files[2] = Wav("hi")
    /\ "sealion_shrimp" \in DOMAIN atomic_sounds
    /\ atomic_sounds["sealion_shrimp"] = extract_semantic_features("hi")
    /\ total_learned >= 1
-----------------------------------------------------------------------------
(* Properties of blending, under SpecBlend *)

Blent == last_call = "_blend_sounds"

\* the weight of the i-th blended sound
SoundWeight(i) ==
    IF weights.t = "NoneType" THEN <<1, Len(sound_names)>> ELSE weights.v[i]

\* the dictionary of the i-th blended sound
SoundLatent(i) == atomic_sounds[sound_names[i]]

\* the positions, in order, of the blended sounds satisfying Has
SoundsWith(Has(_)) ==
    SelectSeq([i \in DOMAIN sound_names |-> i], Has)

\* m is the average of the numbers Val(i) of the sounds at the positions at,
\* each weighted by the weight of its own sound
IsWeightedMean(m, at, Val(_)) ==
    RSum([j \in DOMAIN at |->
            <<Val(at[j])[1] * SoundWeight(at[j])[1],
              Val(at[j])[2] * SoundWeight(at[j])[2]>>])
        = RMul(m, RSum([j \in DOMAIN at |-> SoundWeight(at[j])]))

\* C6 (as claimed): the result of _blend_sounds holds, at every feature key
\* of a blended sound, the weighted average over the sounds that contain
\* the key, each value weighted by the weight of its sound; at a nested
\* dictionary this holds for each nested key, over the sounds whose nested
\* dictionary contains it.
C6_WeightedAverage ==
    Blent =>
      /\ error = "none"
      /\ blended.t = "dict"
      /\ DOMAIN blended.v =
            UNION {DOMAIN SoundLatent(i) : i \in DOMAIN sound_names}
      /\ \A key \in DOMAIN blended.v :
            LET Holds(at) ==
                  CASE SoundLatent(at[1])[key].t = "float" ->
                         /\ blended.v[key].t = "float"
                         /\ IsWeightedMean(blended.v[key].v, at,
                                           LAMBDA i : SoundLatent(i)[key].v)
                    [] SoundLatent(at[1])[key].t = "ndarray" ->
                         /\ blended.v[key].t = "ndarray"
                         /\ \A j \in DOMAIN blended.v[key].v :
                               IsWeightedMean(blended.v[key].v[j], at,
                                              LAMBDA i : SoundLatent(i)[key].v[j])
                    [] OTHER ->
                         /\ blended.v[key].t = "dict"
                         /\ DOMAIN blended.v[key].v =
                               UNION {DOMAIN SoundLatent(at[j])[key].v : j \in DOMAIN at}
                         /\ \A k \in DOMAIN blended.v[key].v :
                               IsWeightedMean(blended.v[key].v[k].v,
                                   SelectSeq(at, LAMBDA i : k \in DOMAIN SoundLatent(i)[key].v),
                                   LAMBDA i : SoundLatent(i)[key].v[k].v)
            IN Holds(SoundsWith(LAMBDA i : key \in DOMAIN SoundLatent(i)))
-----------------------------------------------------------------------------
(* Properties of listening, under SpecListen *)

Heard == last_call = "listen"

\* the fixed labels of each dimension of an interpretation
Labels ==
    [mood      |-> {"positive/uplifting", "negative/melancholic", "neutral/ambient"},
     energy    |-> {"high (active/intense)", "medium (moderate)", "low (calm/quiet)"},
     pattern   |-> {"complex/unpredictable", "simple/regular"},
     character |-> {"tonal/melodic", "mixed (tonal + noise)", "noisy/percussive"},
     evolution |-> {"brightening (rising energy)", "darkening (falling energy)",
                    "stable (unchanging)"},
     texture   |-> {"dense/rich (many layers)", "moderate",
                    "sparse/simple (few elements)"},
     space     |-> {"open/expansive (outdoor feeling)", "medium",
                    "enclosed/intimate (indoor feeling)"}]

\* the descriptor each dimension reads, and the label the value 0 falls under
DescriptorOf ==
    [mood      |-> "emotional_valence",
     energy    |-> "energy_level",
     pattern   |-> "temporal_complexity",
     character |-> "harmonic_richness",
     evolution |-> "spectral_trajectory",
     texture   |-> "textural_density",
     space     |-> "spatial_openness"]

LabelOfZero ==
    [mood      |-> "neutral/ambient",
     energy    |-> "low (calm/quiet)",
     pattern   |-> "simple/regular",
     character |-> "noisy/percussive",
     evolution |-> "stable (unchanging)",
     texture   |-> "sparse/simple (few elements)",
     space     |-> "enclosed/intimate (indoor feeling)"]

\* the latent with every missing descriptor put in at 0
FilledWithZero(latent) ==
    [k \in DOMAIN latent \cup Descriptors |->
        IF k \in DOMAIN latent THEN latent[k] ELSE Float(<<0, 1>>)]

\* C10: listen_internal raises nothing; it returns None for None and for an
\* empty scene; for any other scene it returns exactly the seven keys, each
\* with one of its dimension's labels, a dimension whose descriptor is
\* missing from the latent with the label of the value 0, and the whole
\* interpretation that of the latent with the missing descriptors at 0.
C10_InterpretationLabels ==
    Heard =>
      /\ error = "none"
      /\ IF scene.t = "NoneType" \/ DOMAIN scene.v = {}
         THEN interpretation = None
         ELSE /\ interpretation.t = "dict"
              /\ DOMAIN interpretation.v = DOMAIN Labels
              /\ \A dim \in DOMAIN Labels :
                    /\ interpretation.v[dim] \in Labels[dim]
                    /\ DescriptorOf[dim] \notin DOMAIN scene.v.latent =>
                          interpretation.v[dim] = LabelOfZero[dim]
              /\ \E filled \in {listen_internal(
                                    Dict([scene.v EXCEPT !.latent = FilledWithZero(@)]))} :
                    filled.exc = "none" /\ filled.value = interpretation

\* C10 witness: a scene whose latent has a high valence and no energy level
\* is heard as uplifting and, like energy 0, as calm
C10_Witness ==
    /\ Heard /\ scene.t = "dict" /\ DOMAIN scene.v # {}
    /\ "energy_level" \notin DOMAIN scene.v.latent
    /\ "emotional_valence" \in DOMAIN scene.v.latent
    /\ scene.v.latent["emotional_valence"] = Float(<<1, 2>>)
    /\ interpretation.t = "dict"
    /\ interpretation.v.mood = "positive/uplifting"
    /\ interpretation.v.energy = "low (calm/quiet)"
-----------------------------------------------------------------------------
(* CleanAudioExtractor (equivocal/extractor.py).  A loaded file is an array  *)
(* of len samples whose magnitude is constant over each block of BlockLen   *)
(* samples: amps[b] is the magnitude |x| of the samples of block b.  Times  *)
(* are exact rationals.                                                     *)

\* CleanAudioExtractor(target_sr=22050)
target_sr == 22050

Min(a, b) == IF a < b THEN a ELSE b
Max(a, b) == IF a > b THEN a ELSE b

\* int(x) of a float: truncation towards zero
int(x) == IF x[1] >= 0 THEN x[1] \div x[2] ELSE -((-x[1]) \div x[2])

Samples(t, sr) == RMul(t, <<sr, 1>>)

\* hop_length = int(sr * 0.5)
hop_length(sr) == int(Samples(<<1, 2>>, sr))

BlockLen == hop_length(target_sr)

\* the number of samples of block b of the array a within a[lo:hi]
Overlap(a, b, lo, hi) ==
    Max(0, Min(hi, Min(b * BlockLen, a.len)) - Max(lo, (b - 1) * BlockLen))

\* np.sum(a[lo:hi]**2)
RECURSIVE SumSquaresFrom(_, _, _, _)
SumSquaresFrom(a, b, lo, hi) ==
    IF b > Len(a.amps) THEN 0
    ELSE a.amps[b] * a.amps[b] * Overlap(a, b, lo, hi)
         + SumSquaresFrom(a, b + 1, lo, hi)

SumSquares(a, lo, hi) == SumSquaresFrom(a, 1, lo, hi)

\* np.max(np.abs(a[lo:hi])) of a non-empty slice
Peak(a, lo, hi) ==
    LET Loudest(S) == CHOOSE x \in S : \A y \in S : y <= x
    IN Loudest({0} \cup {a.amps[b] : b \in {c \in DOMAIN a.amps :
                                              Overlap(a, c, lo, hi) > 0}})

\* a segment as the code hands it on: its length and its peak magnitude
Segment(n, peak) == [t |-> "ndarray", len |-> n, peak |-> peak]

\* extract_clean_sample(input_file, output_file, start_time, duration,
\* fade_duration, normalize) with trim_silence=False: the exception leaving
\* it, the segment returned with sr, and the segment written
extract_clean_sample(a, start_time, duration, fade_duration, normalize) ==
    LET sr == target_sr
        start_sample == int(Samples(start_time, sr))
        requested == int(Samples(RAdd(start_time, duration), sr))
        end_sample == IF requested > a.len THEN a.len ELSE requested
        \* segment = audio[start_sample:end_sample]
        lo == Min(start_sample, a.len)
        hi == Max(lo, Min(end_sample, a.len))
        fade_samples == int(Samples(fade_duration, sr))
        fades == hi - lo > 2 * fade_samples
        \* np.linspace(0, 1, n)[0] = 0; np.linspace(1, 0, n)[-1] = 0 for n >= 2
        first == IF fades /\ fade_samples >= 1 THEN lo + 1 ELSE lo
        last == IF fades /\ fade_samples >= 2 THEN hi - 1 ELSE hi
        Failed(e) == [exc |-> e, segment |-> None, sr |-> None, written |-> None]
        Saved(seg) == [exc |-> "none", segment |-> seg, sr |-> sr, written |-> seg]
        Normalized(peak) ==
            Saved(Segment(hi - lo, IF normalize /\ peak > 0 THEN <<4, 5>>
                                   ELSE <<peak, 1>>))
    IN IF fades /\ fade_samples = 0
       THEN Failed("ValueError")      \* segment[-0:] *= an empty fade_out
       ELSE IF normalize /\ hi = lo
       THEN Failed("ValueError")      \* np.max of an empty array
       ELSE Normalized(Peak(a, first, last))

\* the windows find_interesting_moments scores, in the order of its loop
\* `for i in range(0, len(audio) - window_size, hop_length)`; score2 is the
\* square of the score rms * (1 + 0.5 * onsets), which orders as the score
Windows(a, duration, onset_times) ==
    LET sr == target_sr
        window_size == int(Samples(duration, sr))
        Count(n) == IF n <= 0 THEN 0
                    ELSE (n + hop_length(sr) - 1) \div hop_length(sr)
        Window(i) ==
            LET start_time == Rat(i, sr)
                onsets == Cardinality({t \in onset_times :
                              /\ ~RLt(t, start_time)
                              /\ RLt(t, RAdd(start_time, duration))})
            IN [start |-> start_time,
                score2 |-> RMul(Rat(SumSquares(a, i, i + window_size), window_size),
                                Rat((2 + onsets) * (2 + onsets), 4)),
                onsets |-> onsets]
    IN [k \in 1..Count(a.len - window_size) |-> Window((k - 1) * hop_length(sr))]

\* the list with its elements in the order of Rank; list.sort is stable: an
\* element comes after those that go before it and after the earlier ones
\* that it does not go before
Ranked(list, before) ==
    LET Rank(i) == 1 + Cardinality({j \in DOMAIN list :
                        \/ <<j, i>> \in before
                        \/ j < i /\ <<i, j>> \notin before})
    IN [r \in DOMAIN list |-> list[CHOOSE i \in DOMAIN list : Rank(i) = r]]

\* segments.sort(key=lambda x: x['score'], reverse=True)
SortByScoreReversed(segments) ==
    Ranked(segments, {p \in (DOMAIN segments) \X (DOMAIN segments) :
                         RGt(segments[p[1]].score2, segments[p[2]].score2)})

\* top_segments.sort(key=lambda x: x['start'])
SortByStart(segments) ==
    Ranked(segments, {p \in (DOMAIN segments) \X (DOMAIN segments) :
                         RLt(segments[p[1]].start, segments[p[2]].start)})

\* list[:n]
Slice(list, n) ==
    IF n >= 0 THEN SubSeq(list, 1, Min(n, Len(list)))
    ELSE SubSeq(list, 1, Max(0, Len(list) + n))

\* the first n_moments windows in time, whatever their scores
FindEarliestMoments(a, duration, n_moments, onset_times) ==
    LET Starts(top_segments) == [i \in DOMAIN top_segments |-> top_segments[i].start]
    IN Starts(Slice(Windows(a, duration, onset_times), n_moments))

\* find_interesting_moments(input_file, duration, n_moments), with the onset
\* times librosa detects in the file given
find_interesting_moments(a, duration, n_moments, onset_times) ==
    LET Top(segments) ==
            SortByStart(Slice(SortByScoreReversed(segments), n_moments))
        Starts(top_segments) == [i \in DOMAIN top_segments |-> top_segments[i].start]
    IN Starts(Top(Windows(a, duration, onset_times)))

\* the calls the model makes on the extractor
MaxBlocks == 4
MaxMoments == 3

Magnitudes == {0, 1, 2}

\* files of up to MaxBlocks blocks, the last block full or cut short
AudioFiles ==
    LET Loaded(amps, cut) ==
            [t |-> "ndarray", amps |-> amps, len |-> Len(amps) * BlockLen - cut]
    IN {Loaded(amps, cut) :
           amps \in UNION {[1..n -> Magnitudes] : n \in 1..MaxBlocks},
           cut \in {0, 5000}}

StartTimes == {<<0, 1>>, <<1, 2>>, <<1, 1>>, <<3, 2>>, <<2, 1>>, <<3, 1>>}
Durations == {<<1, 2>>, <<1, 1>>, <<5, 1>>}

ExtractRequests ==
    {[call |-> "extract_clean_sample", start_time |-> s, duration |-> d,
      fade_duration |-> <<1, 100>>, normalize |-> nz] :
        s \in StartTimes, d \in Durations, nz \in BOOLEAN}

MomentRequests ==
    {[call |-> "find_interesting_moments", duration |-> d, n_moments |-> n,
      onset_times |-> o] :
        d \in Durations, n \in 0..MaxMoments,
        o \in {{}, {<<1, 4>>}, {<<3, 4>>, <<1, 1>>}, {<<1, 2>>, <<5, 4>>, <<3, 2>>}}}

InitExtract ==
    /\ fs \in {SceneTree({})}
    /\ atomic_sounds = EmptyDict
    /\ soundscapes = EmptyDict
    /\ semantic_vocabulary = EmptyDict
    /\ model_file = None
    /\ tier_paths = DefaultPaths
    /\ total_learned = 0
    /\ prompt = ""
    /\ scene = None
    /\ interpretation = None
    /\ sound_names = <<>>
    /\ weights = None
    /\ blended = None
    /\ error = "none"
    /\ last_call = "__init__"
    /\ input_file \in AudioFiles
    /\ request \in ExtractRequests \cup MomentRequests
    /\ segment = None
    /\ output_file = None
    /\ moments = None
    /\ session = None
    /\ gui = None
    /\ precision = 0
    /\ averaged = None

engine_vars == <<fs, atomic_sounds, soundscapes, semantic_vocabulary,
                 model_file, tier_paths, total_learned, prompt, scene,
                 interpretation, sound_names, weights, blended>>

\* segment, sr = extractor.extract_clean_sample(input_file, output_file, ...)
Extract ==
    /\ request.call = "extract_clean_sample"
    /\ \E r \in {extract_clean_sample(input_file, request.start_time,
                                       request.duration, request.fade_duration,
                                       request.normalize)} :
          /\ segment' = r.segment
          /\ output_file' = r.written
          /\ error' = r.exc
    /\ last_call' = "extract_clean_sample"
    /\ UNCHANGED <<engine_vars, input_file, request, moments, session, gui,
                   precision, averaged>>

\* moments = extractor.find_interesting_moments(input_file, duration, n_moments)
FindMoments ==
    /\ request.call = "find_interesting_moments"
    /\ moments' = List(find_interesting_moments(input_file, request.duration,
                                                request.n_moments,
                                                request.onset_times))
    /\ error' = "none"
    /\ last_call' = "find_interesting_moments"
    /\ UNCHANGED <<engine_vars, input_file, request, segment, output_file,
                   session, gui, precision, averaged>>

SpecExtract == InitExtract /\ [][Extract \/ FindMoments]_vars

-----------------------------------------------------------------------------
(* Properties of the extractor, under SpecExtract *)

Extracted == last_call = "extract_clean_sample"
Found == last_call = "find_interesting_moments"

\* the length of the file in seconds
total_duration == Rat(input_file.len, target_sr)

\* C11 (as claimed): when the requested end time exceeds the file length,
\* extract_clean_sample with normalize=True raises nothing, and the segment
\* it returns and the segment it saves are the samples from the start
\* sample to the end of the file.
C11_ClampedToEndOfFile ==
    (/\ Extracted
     /\ request.normalize
     /\ RGt(RAdd(request.start_time, request.duration), total_duration)) =>
        /\ error = "none"
        /\ segment.t = "ndarray"
        /\ segment.len = Max(0, input_file.len
                                   - int(Samples(request.start_time, target_sr)))
        /\ output_file = segment

\* C12: find_interesting_moments returns min(n_moments, number of windows)
\* start times in ascending order; they are starts of scored windows none
\* of which scores below a window left out; and each start is at least 0
\* and, with the requested duration added, within the length of the file.
C12_TopMomentsInTimeOrder ==
    Found =>
      LET Holds(w, m) ==
            LET chosen == {i \in DOMAIN w : \E k \in DOMAIN m : m[k] = w[i].start}
            IN /\ Len(m) = Min(request.n_moments, Len(w))
               /\ \A k \in 1..(Len(m) - 1) : RLt(m[k], m[k + 1])
               /\ Cardinality(chosen) = Len(m)
               /\ \A i \in chosen : \A j \in DOMAIN w \ chosen :
                     ~RGt(w[j].score2, w[i].score2)
               /\ \A k \in DOMAIN m :
                     /\ ~RLt(m[k], <<0, 1>>)
                     /\ ~RGt(RAdd(m[k], request.duration), total_duration)
      IN /\ error = "none"
         /\ moments.t = "list"
         /\ Holds(Windows(input_file, request.duration, request.onset_times),
                  moments.v)

\* C12 witness: two moments out of three or more windows, the earliest
\* window not among them
C12_Witness ==
    /\ Found /\ request.n_moments = 2
    /\ Len(Windows(input_file, request.duration, request.onset_times)) >= 3
    /\ moments.t = "list" /\ Len(moments.v) = 2
    /\ moments.v[1] # <<0, 1>>
    /\ request.onset_times # {}
-----------------------------------------------------------------------------
(* The interactive session: examples/interactive_demo.py *)

\* what the user may type at the main prompt
Lines ==
    {"", "  ", "quit", "QUIT", " Exit ", "exit", "q", "Q", "\tquit ",
     "help", "HELP", "examples", "sounds", "save", "Save",
     "Whale", "piano", " sea ", "calm wind", "quit now"}

\* what the user may type when asked for a file name
FilenameLines == {"", " my.json ", "quit", "/missing/m.json"}

\* file names that open(filepath, 'w') refuses
Unwritable == {"/missing/m.json"}

\* the string with the given characters
Str(cs) ==
    CHOOSE x \in Prompts \cup TypedPrompts \cup Lines \cup FilenameLines
                 \cup {"my.json"} : Chars(x) = cs

\* prompt in ['quit', 'exit', 'q'], without lowering the case first
IsQuitExact(typed) == typed \in {Chars("quit"), Chars("exit"), Chars("q")}

\* prompt.lower() in ['quit', 'exit', 'q']
IsQuit(typed) == lower(typed) \in {Chars("quit"), Chars("exit"), Chars("q")}

\* prompt.lower() == 'help', 'examples' or 'sounds': print and continue
IsPrintCommand(typed) ==
    lower(typed) \in {Chars("help"), Chars("examples"), Chars("sounds")}

\* prompt.lower() == 'save'
IsSave(typed) == lower(typed) = Chars("save")

\* the session record after reading something at a prompt
Read(pc, event, line, caught) ==
    [pc |-> pc, at_root |-> session.at_root, event |-> event, line |-> line,
     caught |-> caught]

\* run_interactive_session() is called: from the project root or elsewhere
InitSession ==
    /\ fs \in SceneTrees
    /\ atomic_sounds = EmptyDict
    /\ soundscapes = EmptyDict
    /\ semantic_vocabulary = EmptyDict
    /\ model_file = None
    /\ tier_paths = DefaultPaths
    /\ total_learned = 0
    /\ prompt = ""
    /\ scene = None
    /\ interpretation = None
    /\ sound_names = <<>>
    /\ weights = None
    /\ blended = None
    /\ error = "none"
    /\ last_call = "__init__"
    /\ input_file = None
    /\ request = None
    /\ segment = None
    /\ output_file = None
    /\ moments = None
    /\ session \in {[pc |-> "start", at_root |-> r, event |-> "none",
                     line |-> "", caught |-> "none"] : r \in BOOLEAN}
    /\ gui = None
    /\ precision = 0
    /\ averaged = None

\* what a step of the session leaves as it is
session_rest == <<fs, soundscapes, semantic_vocabulary, sound_names, weights,
                  blended, input_file, request, segment, output_file, moments,
                  gui, precision, averaged>>

\* from the data path check to the end of training: away from the project
\* root the user gives the three paths or the program exits
StartSession ==
    /\ session.pc = "start"
    /\ \E answer \in {"y", "n"}, custom \in TrainArgs :
         IF ~session.at_root /\ lower(Chars(answer)) # Chars("y")
         THEN /\ session' = Read("sys.exit", "line", answer, "none")
              /\ UNCHANGED <<atomic_sounds, total_learned, tier_paths, error,
                             last_call>>
         ELSE \E args \in {IF session.at_root THEN DefaultPaths ELSE custom} :
              \E r \in {train_atomic_sounds(args, fs, atomic_sounds)} :
                 /\ atomic_sounds' = r.sounds
                 /\ total_learned' = r.total
                 /\ tier_paths' = args
                 /\ error' = r.exc
                 /\ last_call' = "train"
                 /\ session' = Read(IF r.exc = "none" THEN "input"
                                                      ELSE "sys.exit",
                                    "none", "", "none")
    /\ UNCHANGED <<session_rest, prompt, scene, interpretation, model_file>>

\* one pass of the loop that starts with a line read at the main prompt
EnterLine ==
    /\ session.pc = "input"
    /\ \E line \in Lines :
       \E typed \in {strip(Chars(line))} :
         IF typed = <<>> \/ (~IsQuit(typed) /\ IsPrintCommand(typed))
         THEN /\ session' = Read("input", "line", line, "none")
              /\ UNCHANGED <<prompt, scene, interpretation, error, last_call>>
         ELSE IF IsQuit(typed)
         THEN /\ session' = Read("ended", "line", line, "none")
              /\ UNCHANGED <<prompt, scene, interpretation, error, last_call>>
         ELSE IF IsSave(typed)
         THEN /\ session' = Read("filename", "line", line, "none")
              /\ UNCHANGED <<prompt, scene, interpretation, error, last_call>>
         ELSE \E p \in {Str(typed)} :
              \E listed \in Listings(MatchedSounds(p, atomic_sounds)) :
              \E r \in {generate_scene_from_text(p, atomic_sounds, listed)} :
              \E l \in {listen_internal(r.value)} :
                 /\ prompt' = p
                 /\ scene' = r.value
                 /\ interpretation' = IF r.exc = "none" /\ ~Falsy(r.value)
                                      THEN l.value ELSE None
                 /\ error' = IF r.exc # "none" THEN r.exc
                             ELSE IF Falsy(r.value) THEN "none" ELSE l.exc
                 /\ last_call' = IF r.exc = "none" /\ ~Falsy(r.value)
                                 THEN "listen" ELSE "generate"
                 /\ session' = Read("input", "line", line, error')
    /\ UNCHANGED <<session_rest, atomic_sounds, total_learned, tier_paths,
                   model_file>>

\* the rest of the save command: the file name is read, the model is saved
EnterFilename ==
    /\ session.pc = "filename"
    /\ \E line \in FilenameLines :
       \E filename \in {IF strip(Chars(line)) = <<>> THEN "equivocal_model.json"
                        ELSE Str(strip(Chars(line)))} :
         IF filename \in Unwritable
         THEN /\ session' = Read("input", "line", line, "FileNotFoundError")
              /\ error' = "FileNotFoundError"
              /\ UNCHANGED model_file
         ELSE /\ session' = Read("input", "line", line, "none")
              /\ error' = "none"
              /\ model_file' = SavedData(atomic_sounds, soundscapes)
    /\ last_call' = "save"
    /\ UNCHANGED <<session_rest, atomic_sounds, total_learned, tier_paths,
                   prompt, scene, interpretation>>

\* Ctrl-C inside the loop: except KeyboardInterrupt: break
Interrupt ==
    /\ session.pc \in {"input", "filename"}
    /\ session' = Read("ended", "KeyboardInterrupt", "", "KeyboardInterrupt")
    /\ UNCHANGED <<session_rest, atomic_sounds, total_learned, tier_paths,
                   prompt, scene, interpretation, model_file, error, last_call>>

\* input() finds the end of its input: the exception is caught as any other
EndOfInput ==
    /\ session.pc \in {"input", "filename"}
    /\ session' = Read("input", "EOFError", "", "EOFError")
    /\ UNCHANGED <<session_rest, atomic_sounds, total_learned, tier_paths,
                   prompt, scene, interpretation, model_file, error, last_call>>

SpecSession ==
    InitSession
    /\ [][StartSession \/ EnterLine \/ EnterFilename \/ Interrupt
          \/ EndOfInput]_vars

-----------------------------------------------------------------------------
(* Properties of the interactive session, under SpecSession *)

\* the session is inside its loop, waiting for the user
AtPrompt == session.pc \in {"input", "filename"}

\* the lines of the model that are quit, exit or q in some letter case, with
\* blanks around them or not
QuitLines == {"quit", "QUIT", " Exit ", "exit", "q", "Q", "\tquit "}

\* C13: inside the loop the session ends in a step exactly when that step
\* read quit, exit or q (in any letter case) at the main prompt or was
\* interrupted by KeyboardInterrupt; every other step (empty input, help,
\* examples, sounds, save and its file name, a prompt that matches no sound or
\* some, an exception caught on the way) is back at a prompt with the trained
\* sounds as they were.
C13_EndsOnlyOnQuitOrInterrupt ==
    [][AtPrompt =>
         /\ session'.pc = "ended"
              <=> \/ session'.event = "KeyboardInterrupt"
                  \/ /\ session.pc = "input"
                     /\ session'.event = "line"
                     /\ session'.line \in QuitLines
         /\ session'.pc # "ended"
              => /\ session'.pc \in {"input", "filename"}
                 /\ atomic_sounds' = atomic_sounds]_vars

\* an upper case QUIT has ended a session whose engine had learned something
C13_Witness ==
    /\ session # None
    /\ session.pc = "ended"
    /\ session.line = "QUIT"
    /\ DOMAIN atomic_sounds # {}

-----------------------------------------------------------------------------
(* The window: examples/gui_demo.py *)

\* a path that exists and is no directory
GuiFiles == {"README.md"}

\* what the three path fields may hold
GuiPaths ==
    {DefaultPaths, <<"Tier_2", "Tier_2", "Tier_2">>}
    \cup {<<f, f, f>> : f \in GuiFiles}

\* what the prompt field may hold
GuiPrompts == {"  ", "Whale", " sea ", "peaceful underwater whale"}

\* what the user may answer in the save dialog; "" is Cancel
GuiFilenames == {"", "my.json", "/missing/m.json"}

\* the training data the window may find on disk
GuiTrees == {SceneTree(S) : S \in {{}, {"whale_song"}, Categories}}

\* Path(p).exists()
Exists(p) == p \in DOMAIN fs \/ p \in GuiFiles

\* a window whose Generate button starts enabled
CreateWidgetsGenerateEnabled ==
    [train_button |-> "normal", prompt_entry |-> "disabled",
     generate_button |-> "normal", examples_button |-> "disabled",
     save_button |-> "disabled"]

\* create_widgets(): the state each control is created in
create_widgets ==
    [train_button |-> "normal", prompt_entry |-> "disabled",
     generate_button |-> "disabled", examples_button |-> "disabled",
     save_button |-> "disabled"]

\* EquivocalGUI(root), the window on the screen and no event handled yet
InitGui ==
    /\ fs \in GuiTrees
    /\ atomic_sounds = EmptyDict
    /\ soundscapes = EmptyDict
    /\ semantic_vocabulary = EmptyDict
    /\ model_file = None
    /\ tier_paths = DefaultPaths
    /\ total_learned = 0
    /\ prompt = ""
    /\ scene = None
    /\ interpretation = None
    /\ sound_names = <<>>
    /\ weights = None
    /\ blended = None
    /\ error = "none"
    /\ last_call = "__init__"
    /\ input_file = None
    /\ request = None
    /\ segment = None
    /\ output_file = None
    /\ moments = None
    /\ session = None
    /\ gui = [engine |-> "None",
              is_trained |-> FALSE,
              paths |-> DefaultPaths,
              prompt_var |-> "peaceful underwater whale",
              widgets |-> create_widgets,
              thread |-> "none",
              after |-> <<>>,
              dialog |-> "none",
              succeeded |-> FALSE]
    /\ precision = 0
    /\ averaged = None

\* what no step of the window changes
gui_rest == <<fs, semantic_vocabulary, sound_names, weights, blended,
              input_file, request, segment, output_file, moments, session,
              precision, averaged>>

\* the engine's own state
gui_engine == <<atomic_sounds, soundscapes, total_learned, tier_paths, prompt,
                scene, interpretation, model_file, error, last_call>>

\* browse_folder, or typing into a path field
BrowseFolder ==
    /\ \E paths \in GuiPaths : gui' = [gui EXCEPT !.paths = paths]
    /\ UNCHANGED <<gui_rest, gui_engine>>

\* typing into the prompt entry, which takes input only when enabled
TypePrompt ==
    /\ gui.widgets.prompt_entry = "normal"
    /\ \E p \in GuiPrompts : gui' = [gui EXCEPT !.prompt_var = p]
    /\ UNCHANGED <<gui_rest, gui_engine>>

\* train_model(): the Train button is pressed
ClickTrain ==
    /\ gui.widgets.train_button = "normal"
    /\ IF \E i \in 1..3 : ~Exists(gui.paths[i])
       THEN gui' = [gui EXCEPT !.dialog = "Error"]
       ELSE gui' = [gui EXCEPT !.widgets.train_button = "disabled",
                               !.widgets.prompt_entry = "disabled",
                               !.widgets.generate_button = "disabled",
                               !.thread = "started"]
    /\ UNCHANGED <<gui_rest, gui_engine>>

\* train_thread: self.engine = SceneAudioEngine()
ThreadConstruct ==
    /\ gui.thread = "started"
    /\ gui' = [gui EXCEPT !.engine = "SceneAudioEngine",
                          !.thread = "constructed"]
    /\ atomic_sounds' = EmptyDict
    /\ soundscapes' = EmptyDict
    /\ last_call' = "__init__"
    /\ UNCHANGED <<gui_rest, total_learned, tier_paths, prompt, scene,
                   interpretation, model_file, error>>

\* train_thread: the training call, then the callback for its outcome is
\* handed to the main loop; iterating a path that is no directory raises
ThreadTrain ==
    /\ gui.thread = "constructed"
    /\ IF gui.paths[1] \in GuiFiles
       THEN /\ gui' = [gui EXCEPT !.thread = "none",
                                  !.after = Append(@, "training_error")]
            /\ error' = "NotADirectoryError"
            /\ total_learned' = 0
            /\ UNCHANGED atomic_sounds
       ELSE \E r \in {train_atomic_sounds(gui.paths, fs, atomic_sounds)} :
            /\ gui' = [gui EXCEPT !.thread = "none",
                                  !.after = Append(@, "training_complete"),
                                  !.succeeded = TRUE]
            /\ atomic_sounds' = r.sounds
            /\ total_learned' = r.total
            /\ error' = r.exc
    /\ tier_paths' = gui.paths
    /\ last_call' = "train"
    /\ UNCHANGED <<gui_rest, soundscapes, prompt, scene, interpretation,
                   model_file>>

\* training_complete(), run by the main loop
TrainingComplete ==
    /\ gui.after # <<>>
    /\ Head(gui.after) = "training_complete"
    /\ gui' = [gui EXCEPT !.after = Tail(@),
                          !.is_trained = TRUE,
                          !.widgets = [train_button |-> "normal",
                                       prompt_entry |-> "normal",
                                       generate_button |-> "normal",
                                       examples_button |-> "normal",
                                       save_button |-> "normal"]]
    /\ UNCHANGED <<gui_rest, gui_engine>>

\* training_error(msg), run by the main loop
TrainingError ==
    /\ gui.after # <<>>
    /\ Head(gui.after) = "training_error"
    /\ gui' = [gui EXCEPT !.after = Tail(@),
                          !.widgets.train_button = "normal",
                          !.dialog = "Training Error"]
    /\ UNCHANGED <<gui_rest, gui_engine>>

\* generate_scene(): the Generate button is pressed
ClickGenerate ==
    /\ gui.widgets.generate_button = "normal"
    /\ \E typed \in {strip(Chars(gui.prompt_var))} :
         IF ~gui.is_trained
         THEN /\ gui' = [gui EXCEPT !.dialog = "Not Ready"]
              /\ UNCHANGED <<prompt, scene, interpretation, error, last_call>>
         ELSE IF typed = <<>>
         THEN /\ gui' = [gui EXCEPT !.dialog = "Empty Prompt"]
              /\ UNCHANGED <<prompt, scene, interpretation, error, last_call>>
         ELSE \E p \in {Str(typed)} :
              \E listed \in Listings(MatchedSounds(p, atomic_sounds)) :
              \E r \in {generate_scene_from_text(p, atomic_sounds, listed)} :
              \E l \in {listen_internal(r.value)} :
                 /\ prompt' = p
                 /\ scene' = r.value
                 /\ interpretation' = IF r.exc = "none" /\ ~Falsy(r.value)
                                      THEN l.value ELSE None
                 /\ error' = IF r.exc # "none" THEN r.exc
                             ELSE IF Falsy(r.value) THEN "none" ELSE l.exc
                 /\ last_call' = IF r.exc = "none" /\ ~Falsy(r.value)
                                 THEN "listen" ELSE "generate"
                 /\ gui' = [gui EXCEPT !.dialog = "none"]
    /\ UNCHANGED <<gui_rest, atomic_sounds, soundscapes, total_learned,
                   tier_paths, model_file>>

\* save_model(): the Save button is pressed
ClickSave ==
    /\ gui.widgets.save_button = "normal"
    /\ \E filename \in GuiFilenames :
         IF ~gui.is_trained \/ filename = ""
         THEN UNCHANGED <<gui, model_file, error, last_call>>
         ELSE IF filename \in Unwritable
         THEN /\ gui' = [gui EXCEPT !.dialog = "Save Error"]
              /\ error' = "FileNotFoundError"
              /\ last_call' = "save"
              /\ UNCHANGED model_file
         ELSE /\ gui' = [gui EXCEPT !.dialog = "Success"]
              /\ model_file' = SavedData(atomic_sounds, soundscapes)
              /\ error' = "none"
              /\ last_call' = "save"
    /\ UNCHANGED <<gui_rest, atomic_sounds, soundscapes, total_learned,
                   tier_paths, prompt, scene, interpretation>>

\* show_examples(): the Show Example Prompts button is pressed
ClickExamples ==
    /\ gui.widgets.examples_button = "normal"
    /\ gui' = [gui EXCEPT !.dialog = "Example Prompts"]
    /\ UNCHANGED <<gui_rest, gui_engine>>

SpecGui ==
    InitGui
    /\ [][BrowseFolder \/ TypePrompt \/ ClickTrain \/ ThreadConstruct
          \/ ThreadTrain \/ TrainingComplete \/ TrainingError
          \/ ClickGenerate \/ ClickSave \/ ClickExamples]_vars

-----------------------------------------------------------------------------
(* Properties of the window, under SpecGui *)

\* the engine has been asked for a scene since it was made
SceneAsked == last_call \in {"generate", "listen"}

\* C14: the engine is asked for a scene only when is_trained is true,
\* is_trained is true only after a training call has returned without an
\* exception, and until then the prompt entry and the Generate, Save and
\* Show Example Prompts buttons are all disabled.
C14_GenerateOnlyAfterTraining ==
    /\ SceneAsked => gui.is_trained
    /\ scene # None => gui.is_trained
    /\ gui.is_trained => gui.succeeded /\ gui.engine = "SceneAudioEngine"
    /\ ~gui.is_trained
         => \A w \in {"prompt_entry", "generate_button", "save_button",
                      "examples_button"} : gui.widgets[w] = "disabled"

\* a scene made and listened to in a window whose training has completed
C14_Witness ==
    /\ gui # None
    /\ gui.is_trained
    /\ gui.dialog = "none"
    /\ scene # None
    /\ last_call = "listen"

-----------------------------------------------------------------------------
(* The count train_atomic_sounds prints, under SpecTrain *)

\* C15: after a training call the number printed as "Learned N atomic
\* sounds" is the number of entries of atomic_sounds, the dictionary the
\* call returns.
C15_PrintedCountIsSize ==
    Trained => total_learned = Cardinality(DOMAIN atomic_sounds)

-----------------------------------------------------------------------------
(* The two aggregators side by side: _average_features and _blend_sounds    *)
(* with default weights on the same list of dictionaries, in exact          *)
(* arithmetic and in floating point of Precision significant bits           *)

Precision == 3

\* the value with every number in it rounded to p significant bits
RECURSIVE RoundValue(_, _)
RoundValue(x, p) ==
    CASE x.t = "float" -> Float(Round(x.v, p))
      [] x.t = "ndarray" -> NdArray([j \in DOMAIN x.v |-> Round(x.v[j], p)])
      [] OTHER -> Dict([k \in DOMAIN x.v |-> RoundValue(x.v[k], p)])

\* the learned sounds as floating point numbers hold them
Representable(sounds, p) ==
    [name \in DOMAIN sounds |->
        [k \in DOMAIN sounds[name] |-> RoundValue(sounds[name][k], p)]]

\* [self.atomic_sounds[name] for name in sound_names]
Latents == [i \in DOMAIN sound_names |-> atomic_sounds[sound_names[i]]]

InitAggregate ==
    /\ fs \in {SceneTree({})}
    /\ precision \in {0, Precision}
    /\ atomic_sounds \in {Representable(sounds, precision) : sounds \in BlendSounds}
    /\ soundscapes = EmptyDict
    /\ semantic_vocabulary = EmptyDict
    /\ model_file = None
    /\ tier_paths = DefaultPaths
    /\ total_learned = 0
    /\ prompt = ""
    /\ scene = None
    /\ interpretation = None
    /\ sound_names \in NameLists \cup {<<>>}
    /\ weights = None
    /\ blended = None
    /\ error = "none"
    /\ last_call = "__init__"
    /\ input_file = None
    /\ request = None
    /\ segment = None
    /\ output_file = None
    /\ moments = None
    /\ session = None
    /\ gui = None
    /\ averaged = None

\* averaged = engine._average_features(latents)
AverageFeatures ==
    /\ averaged' = Dict(average_features(Latents))
    /\ last_call' = "_average_features"
    /\ UNCHANGED <<fs, atomic_sounds, soundscapes, semantic_vocabulary,
                   model_file, tier_paths, total_learned, prompt, scene,
                   interpretation, sound_names, weights, blended, error,
                   input_file, request, segment, output_file, moments,
                   session, gui, precision>>

SpecAggregate == InitAggregate /\ [][AverageFeatures \/ Blend]_vars

-----------------------------------------------------------------------------
(* Properties of the aggregators, under SpecAggregate *)

\* both calls have been made on the list
Aggregated == averaged # None /\ (blended # None \/ error # "none")

\* the same kind of value at the same keys, whatever the numbers
RECURSIVE SameShape(_, _)
SameShape(a, b) ==
    /\ a.t = b.t
    /\ a.t = "dict" => /\ DOMAIN a.v = DOMAIN b.v
                       /\ \A k \in DOMAIN a.v : SameShape(a.v[k], b.v[k])
    /\ a.t = "ndarray" => Len(a.v) = Len(b.v)

\* C16 (as claimed): _blend_sounds with default weights returns the same
\* dictionary as _average_features on the same list of dictionaries.
C16_BlendEqualsAverage ==
    Aggregated => error = "none" /\ blended = averaged

\* C16 (amended): on a list that is not empty _blend_sounds with default
\* weights returns a dictionary with the keys and the kinds of value of the
\* one _average_features returns, and with the same numbers when the
\* arithmetic is exact; on the empty list _average_features returns {} and
\* _blend_sounds raises ZeroDivisionError.
C16_BlendAgreesWithAverage ==
    Aggregated =>
      IF sound_names = <<>>
      THEN averaged = Dict(EmptyDict) /\ error = "ZeroDivisionError"
      ELSE /\ error = "none"
           /\ SameShape(blended, averaged)
           /\ precision = 0 => blended = averaged

\* three sounds, a key that one of them lacks, and results that differ in
\* floating point only
C16_Witness ==
    /\ Aggregated
    /\ Len(sound_names) = 3
    /\ precision = Precision
    /\ \E i \in DOMAIN Latents : DOMAIN Latents[i] # DOMAIN averaged.v
    /\ blended # averaged

=============================================================================
